---------------------------- MODULE Spec2Model ----------------------------
(***************************************************************************)
(* Diet assistant: the food catalog loader (FoodDatabaseManager, food.cpp) *)
(* and the reversible log-editing engines (FoodDiary in food.cpp,          *)
(* DailyFoodLog in logs1.cpp).                                             *)
(*                                                                         *)
(* Numbers.  Food calories are whole numbers.  Servings of a log entry are *)
(* fixed-point: one serving is ServUnit ticks, so the source's tolerance   *)
(* 0.001 is Tolerance ticks, and an entry's calories are stored scaled by  *)
(* ServUnit (calories * ServUnit = food calories * serving ticks).         *)
(* Floating-point rounding is outside the model.                           *)
(* A shared_ptr<Food> is modelled by the name of the food it points to:    *)
(* the catalog never rebinds or removes a name after the first pass.       *)
(***************************************************************************)
EXTENDS Integers, Sequences, FiniteSets, TLC

VARIABLES
    variant,        \* which program runs: "food" (food.cpp) or "logs1" (logs1.cpp)
    phase,          \* position of start(): "start", "secondPass", "loadLogs", "menu", "overflow"
    dbFile,         \* the database file: NoFile or File(sequence of records)
    foods,          \* FoodDatabaseManager::foods : name -> Food
    pendingFoods,   \* loadDatabase's pendingFoods : name -> json
    todo,           \* names the second pass has still to visit, in map order
    callStack,      \* activation records of loadCompositeFood, innermost last
    diagnostics,    \* warnings printed by the load, in order
    loadResult,     \* what loadDatabase returned: "none", "true" or "false"
    modified,       \* FoodDatabaseManager::modified
    logFile,        \* the log file: NoFile or File(date -> sequence of json entries)
    dailyLogs,      \* the ledger : date -> sequence of entries
    undoStack,      \* FoodDiary::undoStack (food.cpp), top last
    commandHistory, \* DailyFoodLog::commandHistory (logs1.cpp), top last
    currentDate,    \* the current date
    logModified,    \* DailyFoodLog::modified (logs1.cpp)
    clock,          \* number of commands created so far (also the time of day, in ticks)
    lastOp          \* the last request and its outcome

loadVars  == <<dbFile, foods, pendingFoods, todo, callStack, diagnostics, loadResult, modified>>
diaryVars == <<logFile, dailyLogs, undoStack, commandHistory, currentDate, logModified, clock>>
vars      == <<variant, phase, loadVars, diaryVars, lastOp>>

---------------------------------------------------------------------------
(* Bounds of the model *)

MaxComponents == 2      \* components listed by one composite record
StackLimit    == 4      \* activation records the call stack holds before it overflows
MaxCommands   == 2      \* commands created in one session
MaxIndex      == 2      \* largest index a delete request names

---------------------------------------------------------------------------
(* Helpers *)

\* a file that cannot be opened, and a file holding content
NoFile == [open |-> FALSE, content |-> <<>>]

File(content) == [open |-> TRUE, content |-> content]

NULL == "nullptr"

\* a request (an operation and its arguments) and what it printed; an undo
\* prints the description of the command it undoes, kept as its arguments
Request(op, args, result) == [op |-> op, args |-> args, result |-> result]

NoArgs == <<>>

\* the arguments of a request to log a food, and of a request to delete an entry
\* (logs1.cpp takes the date from currentDate)
AddArgs(date, foodName, servings) ==
    [date |-> date, foodName |-> foodName, servings |-> servings]

DeleteArgs(date, index) == [date |-> date, index |-> index]

SeqsUpTo(S, n) == UNION { [1..k -> S] : k \in 0..n }

RECURSIVE SumSeq(_)
SumSeq(s) == IF s = <<>> THEN 0 ELSE Head(s) + SumSeq(Tail(s))

Range(s) == { s[i] : i \in 1..Len(s) }

\* std::map<string, ...> iterates its keys in increasing order
NameOrder == <<"Beans", "Burrito", "Meal", "Pizza", "Rice">>

SortedNames(S) == SelectSeq(NameOrder, LAMBDA n : n \in S)

EmptyMap == [x \in {} |-> x]

\* m[k] = v of a std::map (insert or overwrite)
MapPut(m, k, v) == [x \in DOMAIN m \cup {k} |-> IF x = k THEN v ELSE m[x]]

\* m.erase(k)
MapErase(m, k) == [x \in DOMAIN m \ {k} |-> m[x]]

---------------------------------------------------------------------------
(* Food model (food.cpp) *)

BasicFood(calories) == [type |-> "basic", calories |-> calories]

CompositeFood(components) == [type |-> "composite", components |-> components]

FoodComponent(food, servings) == [food |-> food, servings |-> servings]

RECURSIVE getCalories_noServings(_, _)
getCalories_noServings(fs, name) ==
    IF fs[name].type = "basic"
    THEN fs[name].calories
    ELSE SumSeq([i \in 1..Len(fs[name].components) |->
                    getCalories_noServings(fs, fs[name].components[i].food)])

\* Food::getCalories of the food that fs binds to name
RECURSIVE getCalories(_, _)
getCalories(fs, name) ==
    IF fs[name].type = "basic"
    THEN fs[name].calories
    ELSE SumSeq([i \in 1..Len(fs[name].components) |->
                    getCalories(fs, fs[name].components[i].food)
                        * fs[name].components[i].servings])

\* FoodDatabaseManager::getFood
getFood(name) == IF name \in DOMAIN foods THEN name ELSE NULL

---------------------------------------------------------------------------
(* Database files *)

BasicRecord(name, calories) ==
    [type |-> "basic", name |-> name, calories |-> calories]

CompositeRecord(name, components) ==
    [type |-> "composite", name |-> name, components |-> components]

Ref(name, servings) == [name |-> name, servings |-> servings]

\* component references a composite record may list
CompRefs == { Ref("Rice", 2), Ref("Beans", 1), Ref("Burrito", 1), Ref("Meal", 2) }

RiceChoices    == { <<>>, <<BasicRecord("Rice", 200)>> }
BeansChoices   == { <<>>, <<BasicRecord("Beans", 150)>> }
BurritoChoices == { <<>> } \cup
    { <<CompositeRecord("Burrito", c)>> : c \in SeqsUpTo(CompRefs, MaxComponents) }
MealChoices    == { <<>> } \cup
    { <<CompositeRecord("Meal", c)>> : c \in SeqsUpTo(CompRefs, MaxComponents) }

\* every file of at most one record per name over Rice, Beans, Burrito, Meal
AllDbFiles ==
    { r \o b \o u \o m : r \in RiceChoices, b \in BeansChoices,
                         u \in BurritoChoices, m \in MealChoices }

\* the scenario catalog: Rice 200, Beans 150, Burrito = [Rice x 2, Beans x 1]
BurritoFile ==
    << BasicRecord("Rice", 200), BasicRecord("Beans", 150),
       CompositeRecord("Burrito", <<Ref("Rice", 2), Ref("Beans", 1)>>) >>

RecordNames(file) == { file[i].name : i \in 1..Len(file) }

NamesOfType(file, t) == { file[i].name : i \in { j \in 1..Len(file) : file[j].type = t } }

\* elements of a database file that are not well-formed records: a value
\* that is no object, a basic record without "calories", a composite record
\* without "components" (read as no components) or without "keywords"
NotAnObject == [type |-> "not an object", name |-> NULL]

BasicWithout(name, field) ==
    [type |-> "basic", name |-> name, calories |-> 0, missing |-> {field}]

CompositeWithout(name, components, field) ==
    [type |-> "composite", name |-> name,
     components |-> IF field = "components" THEN <<>> ELSE components,
     missing |-> {field}]

MalformedChoices ==
    { <<NotAnObject>>, <<BasicWithout("Beans", "calories")>>,
      <<CompositeWithout("Burrito", <<Ref("Rice", 2)>>, "components")>>,
      <<CompositeWithout("Burrito", <<Ref("Rice", 2)>>, "keywords")>> }

\* files of well-formed records with malformed elements before and after
\* Meal, among them files whose only defect is a component no record defines
MalformedFiles ==
    { r \o x \o m \o y :
        r \in RiceChoices,
        x \in MalformedChoices \cup { <<>> },
        m \in { <<>>, <<CompositeRecord("Meal", <<Ref("Rice", 2)>>)>>,
                <<CompositeRecord("Meal", <<Ref("Burrito", 1), Ref("Rice", 2)>>)>>,
                <<CompositeRecord("Meal", <<Ref("Beans", 1), Ref("Rice", 2)>>)>> },
        y \in MalformedChoices \cup { <<>> } }

\* the record a map assignment leaves for name: the last one of that type
LastRecord(file, name, t) ==
    LET idx == { i \in 1..Len(file) : file[i].name = name /\ file[i].type = t }
    IN  file[CHOOSE i \in idx : \A j \in idx : j <= i]

---------------------------------------------------------------------------
(* FoodDatabaseManager::loadDatabase *)

Frame(name) == [name |-> name, next |-> 1, components |-> <<>>]

Top == callStack[Len(callStack)]

ReplaceTop(f) == [callStack EXCEPT ![Len(callStack)] = f]

Pop == SubSeq(callStack, 1, Len(callStack) - 1)

FoodNotFound(name) == [warning |-> "Food not found", name |-> name]

ComponentNotFound(name, composite) ==
    [warning |-> "Component not found", name |-> name, composite |-> composite]

withComponent_dropsAll(frame, componentFood, servings) ==
    IF componentFood # NULL
    THEN [frame EXCEPT !.components = Append(@, FoodComponent(componentFood, servings)),
                       !.next = @ + 1]
    ELSE [frame EXCEPT !.components = <<>>, !.next = @ + 1]

\* the frame after one component was resolved to componentFood (or to nullptr)
withComponent(frame, componentFood, servings) ==
    IF componentFood # NULL
    THEN [frame EXCEPT !.components = Append(@, FoodComponent(componentFood, servings)),
                       !.next = @ + 1]
    ELSE [frame EXCEPT !.next = @ + 1]

\* start(): what follows loadDatabase
AfterLoad == IF variant = "logs1" THEN "loadLogs" ELSE "menu"

\* a first pass that knows only the basic foods read before the first
\* composite record
loadDatabase_onePass ==
    /\ phase = "start"
    /\ IF dbFile = NoFile
       THEN /\ foods' = EmptyMap
            /\ loadResult' = "false"
            /\ phase' = AfterLoad
            /\ UNCHANGED <<pendingFoods, todo>>
       ELSE /\ foods' = [n \in { dbFile.content[i].name : i \in
                                   { k \in 1..Len(dbFile.content) :
                                       \A j \in 1..k : dbFile.content[j].type = "basic" } } |->
                            BasicFood(LastRecord(dbFile.content, n, "basic").calories)]
            /\ pendingFoods' = [n \in NamesOfType(dbFile.content, "composite") |->
                                    LastRecord(dbFile.content, n, "composite")]
            /\ todo' = SortedNames(NamesOfType(dbFile.content, "composite"))
            /\ phase' = "secondPass"
            /\ UNCHANGED loadResult
    /\ lastOp' = Request("loadDatabase", NoArgs, "none")
    /\ UNCHANGED <<variant, dbFile, callStack, diagnostics, modified, diaryVars>>

\* the fields a record lacks
Missing(r) == IF "missing" \in DOMAIN r THEN r.missing ELSE {}

\* the first pass throws on an element that is no object: operator[] with a
\* key on it is a type_error, which loadDatabase catches
firstPassThrows(r) == r.type = "not an object"

\* BasicFood::fromJson reads keywords and calories through the const
\* operator[], which has no defined behaviour for a key the object lacks
firstPassUndefined(r) == r.type = "basic" /\ Missing(r) \cap {"keywords", "calories"} # {}

\* the records the first pass reads before it stops
firstPassRead(file) ==
    LET stops == { i \in 1..Len(file) : firstPassThrows(file[i]) \/ firstPassUndefined(file[i]) }
    IN  IF stops = {} THEN file
        ELSE SubSeq(file, 1, (CHOOSE i \in stops : \A j \in stops : i <= j) - 1)

\* clear(), open the file, first pass over the records
loadDatabase ==
    /\ phase = "start"
    /\ IF dbFile = NoFile
       THEN /\ foods' = EmptyMap
            /\ loadResult' = "false"
            /\ phase' = AfterLoad
            /\ UNCHANGED <<pendingFoods, todo>>
       ELSE LET read == firstPassRead(dbFile.content) IN
            /\ foods' = [n \in NamesOfType(read, "basic") |->
                            BasicFood(LastRecord(read, n, "basic").calories)]
            /\ pendingFoods' = [n \in NamesOfType(read, "composite") |->
                                    LastRecord(read, n, "composite")]
            /\ IF Len(read) = Len(dbFile.content)
               THEN /\ todo' = SortedNames(NamesOfType(read, "composite"))
                    /\ phase' = "secondPass"
                    /\ UNCHANGED loadResult
               ELSE IF firstPassThrows(dbFile.content[Len(read) + 1])
               THEN /\ loadResult' = "false"
                    /\ phase' = AfterLoad
                    /\ UNCHANGED todo
               ELSE /\ phase' \in {"crashed", "undefined"}
                    /\ UNCHANGED <<todo, loadResult>>
    /\ lastOp' = Request("loadDatabase", NoArgs, "none")
    /\ UNCHANGED <<variant, dbFile, callStack, diagnostics, modified, diaryVars>>

\* a second pass whose loadCompositeFood(name) builds the name although
\* foods holds it
secondPass_noMemo ==
    /\ phase = "secondPass"
    /\ callStack = <<>>
    /\ todo # <<>>
    /\ todo' = Tail(todo)
    /\ callStack' = <<Frame(Head(todo))>>
    /\ lastOp' = Request("loadDatabase", NoArgs, "none")
    /\ UNCHANGED <<variant, phase, dbFile, foods, pendingFoods, diagnostics,
                   loadResult, modified, diaryVars>>

\* second pass: loadCompositeFood(name) for the next pending name
secondPass ==
    /\ phase = "secondPass"
    /\ callStack = <<>>
    /\ todo # <<>>
    /\ todo' = Tail(todo)
    /\ callStack' = IF Head(todo) \in DOMAIN foods THEN callStack
                    ELSE <<Frame(Head(todo))>>
    /\ lastOp' = Request("loadDatabase", NoArgs, "none")
    /\ UNCHANGED <<variant, phase, dbFile, foods, pendingFoods, diagnostics,
                   loadResult, modified, diaryVars>>

\* a loop turn that looks a component up with foods[componentName], which
\* leaves an entry of no calories under a name no record defines
loadComponent_insertsEntry ==
    /\ phase = "secondPass"
    /\ callStack # <<>>
    /\ Top.next <= Len(pendingFoods[Top.name].components)
    /\ LET comp == pendingFoods[Top.name].components[Top.next]
       IN  IF comp.name \in DOMAIN foods
           THEN /\ callStack' = ReplaceTop(withComponent(Top, comp.name, comp.servings))
                /\ UNCHANGED <<phase, diagnostics, foods>>
           ELSE IF comp.name \notin DOMAIN pendingFoods
           THEN /\ callStack' = ReplaceTop(withComponent(Top, NULL, comp.servings))
                /\ diagnostics' = diagnostics \o
                       <<FoodNotFound(comp.name), ComponentNotFound(comp.name, Top.name)>>
                /\ foods' = MapPut(foods, comp.name, BasicFood(0))
                /\ UNCHANGED phase
           ELSE IF Len(callStack) < StackLimit
           THEN /\ callStack' = Append(callStack, Frame(comp.name))
                /\ UNCHANGED <<phase, diagnostics, foods>>
           ELSE /\ phase' = "overflow"
                /\ UNCHANGED <<callStack, diagnostics, foods>>
    /\ lastOp' = Request("loadDatabase", NoArgs, "none")
    /\ UNCHANGED <<variant, dbFile, pendingFoods, todo, loadResult, modified, diaryVars>>

\* a loop turn with a cycle guard: a component that is under construction
\* further down the call stack is taken as not found
loadComponent_cycleGuard ==
    /\ phase = "secondPass"
    /\ callStack # <<>>
    /\ Top.next <= Len(pendingFoods[Top.name].components)
    /\ LET comp == pendingFoods[Top.name].components[Top.next]
       IN  IF comp.name \in DOMAIN foods
           THEN /\ callStack' = ReplaceTop(withComponent(Top, comp.name, comp.servings))
                /\ UNCHANGED <<phase, diagnostics>>
           ELSE IF \/ comp.name \notin DOMAIN pendingFoods
                   \/ \E i \in 1..Len(callStack) : callStack[i].name = comp.name
           THEN /\ callStack' = ReplaceTop(withComponent(Top, NULL, comp.servings))
                /\ diagnostics' = diagnostics \o
                       <<FoodNotFound(comp.name), ComponentNotFound(comp.name, Top.name)>>
                /\ UNCHANGED phase
           ELSE IF Len(callStack) < StackLimit
           THEN /\ callStack' = Append(callStack, Frame(comp.name))
                /\ UNCHANGED <<phase, diagnostics>>
           ELSE /\ phase' = "overflow"
                /\ UNCHANGED <<callStack, diagnostics>>
    /\ lastOp' = Request("loadDatabase", NoArgs, "none")
    /\ UNCHANGED <<variant, dbFile, foods, pendingFoods, todo, loadResult, modified,
                   diaryVars>>

\* a loop turn that loads a pending component again although foods holds it
loadComponent_noMemo ==
    /\ phase = "secondPass"
    /\ callStack # <<>>
    /\ Top.next <= Len(pendingFoods[Top.name].components)
    /\ LET comp == pendingFoods[Top.name].components[Top.next]
       IN  IF comp.name \in DOMAIN pendingFoods
           THEN IF Len(callStack) < StackLimit
                THEN /\ callStack' = Append(callStack, Frame(comp.name))
                     /\ UNCHANGED <<phase, diagnostics>>
                ELSE /\ phase' = "overflow"
                     /\ UNCHANGED <<callStack, diagnostics>>
           ELSE IF comp.name \in DOMAIN foods
           THEN /\ callStack' = ReplaceTop(withComponent(Top, comp.name, comp.servings))
                /\ UNCHANGED <<phase, diagnostics>>
           ELSE /\ callStack' = ReplaceTop(withComponent(Top, NULL, comp.servings))
                /\ diagnostics' = diagnostics \o
                       <<FoodNotFound(comp.name), ComponentNotFound(comp.name, Top.name)>>
                /\ UNCHANGED phase
    /\ lastOp' = Request("loadDatabase", NoArgs, "none")
    /\ UNCHANGED <<variant, dbFile, foods, pendingFoods, todo, loadResult, modified,
                   diaryVars>>

\* loadCompositeFood: one turn of the loop over the components
loadComponent ==
    /\ phase = "secondPass"
    /\ callStack # <<>>
    /\ Top.next <= Len(pendingFoods[Top.name].components)
    /\ LET comp == pendingFoods[Top.name].components[Top.next]
       IN  IF comp.name \in DOMAIN foods
           THEN /\ callStack' = ReplaceTop(withComponent(Top, comp.name, comp.servings))
                /\ UNCHANGED <<phase, diagnostics>>
           ELSE IF comp.name \notin DOMAIN pendingFoods
           THEN /\ callStack' = ReplaceTop(withComponent(Top, NULL, comp.servings))
                /\ diagnostics' = diagnostics \o
                       <<FoodNotFound(comp.name), ComponentNotFound(comp.name, Top.name)>>
                /\ UNCHANGED phase
           ELSE IF Len(callStack) < StackLimit
           THEN /\ callStack' = Append(callStack, Frame(comp.name))
                /\ UNCHANGED <<phase, diagnostics>>
           ELSE /\ phase' = "overflow"
                /\ UNCHANGED <<callStack, diagnostics>>
    /\ lastOp' = Request("loadDatabase", NoArgs, "none")
    /\ UNCHANGED <<variant, dbFile, foods, pendingFoods, todo, loadResult, modified,
                   diaryVars>>

\* loadCompositeFood: create the composite, add it to foods and return it
createComposite ==
    /\ phase = "secondPass"
    /\ callStack # <<>>
    /\ Top.next > Len(pendingFoods[Top.name].components)
    /\ IF "keywords" \in Missing(pendingFoods[Top.name])
       THEN \* get<vector<string>>() of null throws; loadDatabase catches
            /\ callStack' = <<>>
            /\ loadResult' = "false"
            /\ phase' = AfterLoad
            /\ UNCHANGED foods
       ELSE /\ foods' = MapPut(foods, Top.name, CompositeFood(Top.components))
            /\ IF Len(callStack) = 1
               THEN callStack' = <<>>
               ELSE LET caller == callStack[Len(callStack) - 1]
                        comp   == pendingFoods[caller.name].components[caller.next]
                    IN  callStack' = [Pop EXCEPT ![Len(callStack) - 1] =
                                         withComponent(caller, Top.name, comp.servings)]
            /\ UNCHANGED <<phase, loadResult>>
    /\ lastOp' = Request("loadDatabase", NoArgs, "none")
    /\ UNCHANGED <<variant, dbFile, pendingFoods, todo, diagnostics, modified, diaryVars>>

\* "Database loaded": return true
loadDone ==
    /\ phase = "secondPass"
    /\ callStack = <<>>
    /\ todo = <<>>
    /\ loadResult' = "true"
    /\ phase' = AfterLoad
    /\ lastOp' = Request("loadDatabase", NoArgs, "none")
    /\ UNCHANGED <<variant, dbFile, foods, pendingFoods, todo, callStack, diagnostics,
                   modified, diaryVars>>

---------------------------------------------------------------------------
(* Dates *)

\* the characters of the date strings the model uses
Chars(dateStr) ==
    CASE dateStr = "2024-01-01" -> <<"2", "0", "2", "4", "-", "0", "1", "-", "0", "1">>
      [] dateStr = "2024-01-02" -> <<"2", "0", "2", "4", "-", "0", "1", "-", "0", "2">>
      [] dateStr = "2024-02-30" -> <<"2", "0", "2", "4", "-", "0", "2", "-", "3", "0">>
      [] dateStr = "2024-13-01" -> <<"2", "0", "2", "4", "-", "1", "3", "-", "0", "1">>
      [] dateStr = "2024/01/01" -> <<"2", "0", "2", "4", "/", "0", "1", "/", "0", "1">>
      [] dateStr = "20240101"   -> <<"2", "0", "2", "4", "0", "1", "0", "1">>
      [] dateStr = "2024-02-29" -> <<"2", "0", "2", "4", "-", "0", "2", "-", "2", "9">>
      [] dateStr = "2023-02-29" -> <<"2", "0", "2", "3", "-", "0", "2", "-", "2", "9">>
      [] dateStr = "2024-04-31" -> <<"2", "0", "2", "4", "-", "0", "4", "-", "3", "1">>
      [] dateStr = "2024-00-10" -> <<"2", "0", "2", "4", "-", "0", "0", "-", "1", "0">>
      [] dateStr = "2024-01-00" -> <<"2", "0", "2", "4", "-", "0", "1", "-", "0", "0">>
      [] dateStr = "2024-1a-01" -> <<"2", "0", "2", "4", "-", "1", "a", "-", "0", "1">>

Digits == <<"0", "1", "2", "3", "4", "5", "6", "7", "8", "9">>

isdigit(c) == \E i \in 1..10 : Digits[i] = c

DigitValue(c) == (CHOOSE i \in 1..10 : Digits[i] = c) - 1

\* stoi of a string of digits
RECURSIVE stoi(_)
stoi(s) == IF s = <<>> THEN 0
           ELSE 10 * stoi(SubSeq(s, 1, Len(s) - 1)) + DigitValue(s[Len(s)])

daysInMonth == <<31, 28, 31, 30, 31, 30, 31, 31, 30, 31, 30, 31>>

\* DateUtil::isValidDate (food.cpp); positions are 1-based here
isValidDate(dateStr) ==
    LET s == Chars(dateStr) IN
    /\ Len(s) = 10
    /\ \A i \in 1..10 : IF i = 5 \/ i = 8 THEN s[i] = "-" ELSE isdigit(s[i])
    /\ LET year  == stoi(SubSeq(s, 1, 4))
           month == stoi(SubSeq(s, 6, 7))
           day   == stoi(SubSeq(s, 9, 10))
           leap  == (year % 4 = 0 /\ year % 100 # 0) \/ year % 400 = 0
       IN  /\ month >= 1 /\ month <= 12
           /\ day >= 1
           /\ day <= (IF month = 2 /\ leap THEN 29 ELSE daysInMonth[month])

\* DailyFoodLog::isValidDateFormat (logs1.cpp)
isValidDateFormat(date) ==
    LET s == Chars(date) IN
    /\ Len(s) = 10
    /\ s[5] = "-" /\ s[8] = "-"
    /\ \A i \in 1..10 : (i # 5 /\ i # 8) => isdigit(s[i])

\* getCurrentDate() / getTodayDate() at construction
Today == "2024-01-01"

\* dates a log request names, and strings a date change is asked with
Dates      == { "2024-01-01", "2024-01-02" }
DateInputs == { "2024-01-01", "2024-01-02", "2024-02-30" }

\* every string a date change is asked with when the dates are looked at alone
DateStrings == { "2024-01-01", "2024-01-02", "2024-02-29", "2023-02-29", "2024-02-30",
                 "2024-04-31", "2024-13-01", "2024-00-10", "2024-01-00", "2024/01/01",
                 "20240101", "2024-1a-01" }

---------------------------------------------------------------------------
(* Servings and calories of log entries *)

\* ticks of one serving, and the tolerance 0.001 of AddFoodCommand::undo in ticks
ServUnit  == 2000
Tolerance == 2

\* servings a log request names: 1.5 and 1.5005
ServingInputs == { 3000, 3001 }

\* names a log request names; Pizza is in no database file
FoodInputs == { "Rice", "Pizza" }

Abs(x) == IF x < 0 THEN -x ELSE x

\* dailyLogs[date] read through operator[]: an absent key reads as empty
Entries(logs, date) == IF date \in DOMAIN logs THEN logs[date] ELSE <<>>

\* operator[] for its side effect: an absent key is created empty
Touch(logs, date) == IF date \in DOMAIN logs THEN logs ELSE MapPut(logs, date, <<>>)

\* vector::erase of the element at 0-based index
EraseAt(s, index) == SubSeq(s, 1, index) \o SubSeq(s, index + 2, Len(s))

\* vector::insert before the element at 0-based index
InsertAt(s, index, e) == SubSeq(s, 1, index) \o <<e>> \o SubSeq(s, index + 1, Len(s))

---------------------------------------------------------------------------
(* FoodDiary (food.cpp) *)

FoodEntry(name, servs, cals) == [foodName |-> name, servings |-> servs, calories |-> cals]

\* FoodDiary::loadLogs: a key is created by the first entry appended under it
loadLogs(file) ==
    IF ~file.open THEN EmptyMap
    ELSE [d \in { x \in DOMAIN file.content : file.content[x] # <<>> } |->
             [i \in 1..Len(file.content[d]) |->
                 FoodEntry(file.content[d][i].food, file.content[d][i].servings,
                           file.content[d][i].calories)]]

\* a constructor that takes the calories of one serving whatever the servings
AddFoodCommand_oneServing(dt, name, servs) ==
    [kind |-> "add", date |-> dt, foodName |-> name, servings |-> servs,
     calories |-> IF getFood(name) # NULL THEN getCalories(foods, name) * ServUnit ELSE 0,
     seq |-> clock + 1]

\* AddFoodCommand's constructor: the calories are computed from the catalog now
AddFoodCommand(dt, name, servs) ==
    [kind |-> "add", date |-> dt, foodName |-> name, servings |-> servs,
     calories |-> IF getFood(name) # NULL THEN getCalories(foods, name) * servs ELSE 0,
     seq |-> clock + 1]

\* an execute that puts the entry in front of the date's entries
AddFoodCommand_execute_front(logs, cmd) ==
    MapPut(logs, cmd.date,
           <<FoodEntry(cmd.foodName, cmd.servings, cmd.calories)>>
               \o Entries(logs, cmd.date))

AddFoodCommand_execute(logs, cmd) ==
    MapPut(logs, cmd.date,
           Append(Entries(logs, cmd.date),
                  FoodEntry(cmd.foodName, cmd.servings, cmd.calories)))

\* the 1-based position AddFoodCommand::undo erases, 0 when no entry matches
LatestMatch(entries, cmd) ==
    LET hits == { i \in 1..Len(entries) :
                    /\ entries[i].foodName = cmd.foodName
                    /\ Abs(entries[i].servings - cmd.servings) < Tolerance }
    IN  IF hits = {} THEN 0 ELSE CHOOSE i \in hits : \A j \in hits : j <= i

\* an undo that looks for exactly the command's servings, with no tolerance
AddFoodCommand_undo_exact(logs, cmd) ==
    LET entries == Entries(logs, cmd.date)
        hits    == { i \in 1..Len(entries) :
                       /\ entries[i].foodName = cmd.foodName
                       /\ entries[i].servings = cmd.servings }
        left    == IF hits = {} THEN entries
                   ELSE EraseAt(entries, (CHOOSE i \in hits : \A j \in hits : j <= i) - 1)
    IN  IF left = <<>> THEN MapErase(logs, cmd.date) ELSE MapPut(logs, cmd.date, left)

AddFoodCommand_undo(logs, cmd) ==
    LET entries == Entries(logs, cmd.date)
        k       == LatestMatch(entries, cmd)
        left    == IF k = 0 THEN entries ELSE EraseAt(entries, k - 1)
    IN  IF left = <<>> THEN MapErase(logs, cmd.date) ELSE MapPut(logs, cmd.date, left)

\* a constructor that keeps the placeholder and never copies the entry
DeleteFoodCommand_noCapture(logs, dt, idx) ==
    [kind |-> "delete", date |-> dt, index |-> idx,
     deletedEntry |-> FoodEntry("", 0, 0),
     seq |-> clock + 1]

\* DeleteFoodCommand's constructor, run on the ledger logs
DeleteFoodCommand(logs, dt, idx) ==
    [kind |-> "delete", date |-> dt, index |-> idx,
     deletedEntry |-> IF idx < Len(Entries(logs, dt))
                      THEN Entries(logs, dt)[idx + 1]
                      ELSE FoodEntry("", 0, 0),
     seq |-> clock + 1]

\* an execute that leaves the key of a date it emptied
DeleteFoodCommand_execute_keepsKey(logs, cmd) ==
    LET entries == Entries(logs, cmd.date) IN
    IF cmd.index < Len(entries)
    THEN MapPut(logs, cmd.date, EraseAt(entries, cmd.index))
    ELSE Touch(logs, cmd.date)

DeleteFoodCommand_execute(logs, cmd) ==
    LET entries == Entries(logs, cmd.date) IN
    IF cmd.index < Len(entries)
    THEN IF EraseAt(entries, cmd.index) = <<>>
         THEN MapErase(logs, cmd.date)
         ELSE MapPut(logs, cmd.date, EraseAt(entries, cmd.index))
    ELSE Touch(logs, cmd.date)

DeleteFoodCommand_undo(logs, cmd) ==
    MapPut(logs, cmd.date, Append(Entries(logs, cmd.date), cmd.deletedEntry))

execute(logs, cmd) ==
    IF cmd.kind = "add" THEN AddFoodCommand_execute(logs, cmd)
    ELSE DeleteFoodCommand_execute(logs, cmd)

undoCommand(logs, cmd) ==
    IF cmd.kind = "add" THEN AddFoodCommand_undo(logs, cmd)
    ELSE DeleteFoodCommand_undo(logs, cmd)

\* an executeCommand that runs the command's execute twice
executeCommand_twice(logs, command) ==
    /\ dailyLogs' = execute(execute(logs, command), command)
    /\ undoStack' = Append(undoStack, command)
    /\ clock' = command.seq

\* FoodDiary::executeCommand on the ledger logs (the ledger the constructor left)
executeCommand(logs, command) ==
    /\ dailyLogs' = execute(logs, command)
    /\ undoStack' = Append(undoStack, command)
    /\ clock' = command.seq

\* an undo that does not look whether the stack is empty and takes an add of
\* nothing on the current date for its top
undo_unguarded ==
    /\ phase = "menu" /\ variant = "food"
    /\ LET top == IF undoStack = <<>>
                  THEN [kind |-> "add", date |-> currentDate, foodName |-> "", servings |-> 0,
                        calories |-> 0, seq |-> 0]
                  ELSE undoStack[Len(undoStack)]
       IN  /\ undoStack' = SubSeq(undoStack, 1, Len(undoStack) - 1)
           /\ dailyLogs' = undoCommand(dailyLogs, top)
           /\ lastOp' = Request("undo", top, "Undone")
    /\ UNCHANGED <<variant, phase, loadVars, logFile, commandHistory, currentDate,
                   logModified, clock>>

\* an undo that inverts the top command and leaves it on the stack
undo_keepsCommand ==
    /\ phase = "menu" /\ variant = "food"
    /\ IF undoStack = <<>>
       THEN /\ lastOp' = Request("undo", NoArgs, "Nothing to undo.")
            /\ UNCHANGED <<dailyLogs, undoStack>>
       ELSE /\ undoStack' = undoStack
            /\ dailyLogs' = undoCommand(dailyLogs, undoStack[Len(undoStack)])
            /\ lastOp' = Request("undo", undoStack[Len(undoStack)], "Undone")
    /\ UNCHANGED <<variant, phase, loadVars, logFile, commandHistory, currentDate,
                   logModified, clock>>

\* FoodDiary::undo
undo ==
    /\ phase = "menu" /\ variant = "food"
    /\ IF undoStack = <<>>
       THEN /\ lastOp' = Request("undo", NoArgs, "Nothing to undo.")
            /\ UNCHANGED <<dailyLogs, undoStack>>
       ELSE /\ undoStack' = SubSeq(undoStack, 1, Len(undoStack) - 1)
            /\ dailyLogs' = undoCommand(dailyLogs, undoStack[Len(undoStack)])
            /\ lastOp' = Request("undo", undoStack[Len(undoStack)], "Undone")
    /\ UNCHANGED <<variant, phase, loadVars, logFile, commandHistory, currentDate,
                   logModified, clock>>

\* FoodDiary::addFood
addFood(date, foodName, servings) ==
    /\ phase = "menu" /\ variant = "food"
    /\ IF getFood(foodName) = NULL
       THEN /\ lastOp' = Request("addFood", AddArgs(date, foodName, servings), "Food not found")
            /\ UNCHANGED <<dailyLogs, undoStack, clock>>
       ELSE /\ clock < MaxCommands
            /\ executeCommand(dailyLogs, AddFoodCommand(date, foodName, servings))
            /\ lastOp' = Request("addFood", AddArgs(date, foodName, servings), "Executed")
    /\ UNCHANGED <<variant, phase, loadVars, logFile, commandHistory, currentDate,
                   logModified>>

\* a deleteFood that lets the index just past the last entry through
deleteFood_offByOne(date, index) ==
    /\ phase = "menu" /\ variant = "food"
    /\ IF date \notin DOMAIN dailyLogs \/ index > Len(dailyLogs[date])
       THEN /\ lastOp' = Request("deleteFood", DeleteArgs(date, index), "Invalid food entry index.")
            /\ UNCHANGED <<dailyLogs, undoStack, clock>>
       ELSE /\ clock < MaxCommands
            /\ executeCommand(Touch(dailyLogs, date),
                              DeleteFoodCommand(dailyLogs, date, index))
            /\ lastOp' = Request("deleteFood", DeleteArgs(date, index), "Executed")
    /\ UNCHANGED <<variant, phase, loadVars, logFile, commandHistory, currentDate,
                   logModified>>

\* FoodDiary::deleteFood
deleteFood(date, index) ==
    /\ phase = "menu" /\ variant = "food"
    /\ IF date \notin DOMAIN dailyLogs \/ index >= Len(dailyLogs[date])
       THEN /\ lastOp' = Request("deleteFood", DeleteArgs(date, index), "Invalid food entry index.")
            /\ UNCHANGED <<dailyLogs, undoStack, clock>>
       ELSE /\ clock < MaxCommands
            /\ executeCommand(Touch(dailyLogs, date),
                              DeleteFoodCommand(dailyLogs, date, index))
            /\ lastOp' = Request("deleteFood", DeleteArgs(date, index), "Executed")
    /\ UNCHANGED <<variant, phase, loadVars, logFile, commandHistory, currentDate,
                   logModified>>

\* FoodDiary::setCurrentDate
setCurrentDate(date) ==
    /\ phase = "menu" /\ variant = "food"
    /\ IF isValidDate(date)
       THEN /\ currentDate' = date
            /\ lastOp' = Request("setCurrentDate", [date |-> date], "Current date set")
       ELSE /\ lastOp' = Request("setCurrentDate", [date |-> date], "Invalid date format")
            /\ UNCHANGED currentDate
    /\ UNCHANGED <<variant, phase, loadVars, logFile, dailyLogs, undoStack,
                   commandHistory, logModified, clock>>

\* the total displayDailyLog prints for date (scaled by ServUnit)
displayDailyLog(date) ==
    SumSeq([i \in 1..Len(Entries(dailyLogs, date)) |-> Entries(dailyLogs, date)[i].calories])

---------------------------------------------------------------------------
(* FoodDatabaseManager::addFood, reached from the menu *)

\* foods the user adds from the menu
NewFoods == { [name |-> "Pizza", food |-> BasicFood(300)],
              [name |-> "Rice",  food |-> BasicFood(999)] }

\* an addFood that stores the food whether or not the name is taken
dbManager_addFood_overwrites(new) ==
    /\ phase = "menu"
    /\ foods' = MapPut(foods, new.name, new.food)
    /\ modified' = TRUE
    /\ lastOp' = Request("dbManager.addFood", [name |-> new.name], "added")
    /\ UNCHANGED <<variant, phase, dbFile, pendingFoods, todo, callStack, diagnostics,
                   loadResult, diaryVars>>

dbManager_addFood(new) ==
    /\ phase = "menu"
    /\ IF new.name \in DOMAIN foods
       THEN /\ lastOp' = Request("dbManager.addFood", [name |-> new.name], "already exists")
            /\ UNCHANGED <<foods, modified>>
       ELSE /\ foods' = MapPut(foods, new.name, new.food)
            /\ modified' = TRUE
            /\ lastOp' = Request("dbManager.addFood", [name |-> new.name], "added")
    /\ UNCHANGED <<variant, phase, dbFile, pendingFoods, todo, callStack, diagnostics,
                   loadResult, diaryVars>>

\* the components createCompositeFood keeps of those entered: the ones getFood finds
RECURSIVE foundComponents(_)
foundComponents(entered) ==
    IF entered = <<>> THEN <<>>
    ELSE IF getFood(Head(entered).name) = NULL THEN foundComponents(Tail(entered))
    ELSE <<FoodComponent(getFood(Head(entered).name), Head(entered).servings)>>
             \o foundComponents(Tail(entered))

\* a dialogue that keeps every component entered, found or not
createCompositeFood_unchecked(name, entered) ==
    dbManager_addFood([name |-> name,
                       food |-> CompositeFood([i \in 1..Len(entered) |->
                                   FoodComponent(entered[i].name, entered[i].servings)])])

\* DietAssistantCLI::createCompositeFood with the name and the components entered
createCompositeFood(name, entered) ==
    IF foundComponents(entered) = <<>>
    THEN /\ phase = "menu"
         /\ lastOp' = Request("createCompositeFood", [name |-> name], "cancelled")
         /\ UNCHANGED <<variant, phase, loadVars, diaryVars>>
    ELSE dbManager_addFood([name |-> name, food |-> CompositeFood(foundComponents(entered))])

\* names entered for a new composite
CompositeNames == { "Burrito", "Meal" }

---------------------------------------------------------------------------
(* DailyFoodLog (logs1.cpp) *)

LogEntry(name, amount, time) == [foodName |-> name, servings |-> amount, timestamp |-> time]

\* time(nullptr): the clock advances by one with every command created
Now == clock + 1

\* DailyFoodLog::loadLogs: first in start() after loadDatabase
logs1_loadLogs ==
    /\ phase = "loadLogs" /\ variant = "logs1"
    /\ dailyLogs' = IF ~logFile.open THEN EmptyMap
                    ELSE [d \in DOMAIN logFile.content |->
                             [i \in 1..Len(logFile.content[d]) |->
                                 LogEntry(logFile.content[d][i].foodName,
                                          logFile.content[d][i].servings,
                                          logFile.content[d][i].timestamp)]]
    /\ phase' = "menu"
    /\ lastOp' = Request("loadLogs", NoArgs,
                          IF logFile.open THEN "Logs loaded" ELSE "No existing logs")
    /\ UNCHANGED <<variant, loadVars, logFile, undoStack, commandHistory, currentDate,
                   logModified, clock>>

\* DailyFoodLog::calculateEntryCalories (scaled by ServUnit)
calculateEntryCalories(foodName, servings) ==
    IF getFood(foodName) # NULL THEN getCalories(foods, foodName) * servings ELSE 0

\* the total displayLogForDate prints for date (scaled by ServUnit)
displayLogForDate(date) ==
    SumSeq([i \in 1..Len(Entries(dailyLogs, date)) |->
               calculateEntryCalories(Entries(dailyLogs, date)[i].foodName,
                                      Entries(dailyLogs, date)[i].servings)])

logs1_AddFoodCommand(date, entry) ==
    [kind |-> "add", date |-> date, entry |-> entry, seq |-> clock + 1]

logs1_AddFoodCommand_execute(logs, cmd) ==
    MapPut(logs, cmd.date, Append(Entries(logs, cmd.date), cmd.entry))

\* an undo that pops the last entry of the current date, not of the command's
logs1_AddFoodCommand_undo_currentDate(logs, cmd) ==
    LET entries == Entries(logs, currentDate) IN
    IF entries # <<>>
    THEN IF Len(entries) = 1
         THEN MapErase(logs, currentDate)
         ELSE MapPut(logs, currentDate, SubSeq(entries, 1, Len(entries) - 1))
    ELSE Touch(logs, currentDate)

logs1_AddFoodCommand_undo(logs, cmd) ==
    LET entries == Entries(logs, cmd.date) IN
    IF entries # <<>>
    THEN IF Len(entries) = 1
         THEN MapErase(logs, cmd.date)
         ELSE MapPut(logs, cmd.date, SubSeq(entries, 1, Len(entries) - 1))
    ELSE Touch(logs, cmd.date)

\* RemoveFoodCommand's constructor (the orchestrator checks the index first)
logs1_RemoveFoodCommand(logs, date, idx) ==
    [kind |-> "remove", date |-> date, index |-> idx,
     removedEntry |-> Entries(logs, date)[idx + 1], seq |-> clock + 1]

\* an execute that erases the whole date of the entry it removes
logs1_RemoveFoodCommand_execute_clearsDate(logs, cmd) ==
    IF cmd.date \in DOMAIN logs /\ cmd.index < Len(logs[cmd.date])
    THEN MapErase(logs, cmd.date)
    ELSE logs

logs1_RemoveFoodCommand_execute(logs, cmd) ==
    IF cmd.date \in DOMAIN logs /\ cmd.index < Len(logs[cmd.date])
    THEN IF EraseAt(logs[cmd.date], cmd.index) = <<>>
         THEN MapErase(logs, cmd.date)
         ELSE MapPut(logs, cmd.date, EraseAt(logs[cmd.date], cmd.index))
    ELSE logs

\* an undo that puts the removed entry behind the date's entries
logs1_RemoveFoodCommand_undo_append(logs, cmd) ==
    MapPut(logs, cmd.date, Append(Entries(logs, cmd.date), cmd.removedEntry))

\* insert at begin() + index; past the end the behaviour is undefined
logs1_RemoveFoodCommand_undo(logs, cmd) ==
    MapPut(logs, cmd.date, InsertAt(Entries(logs, cmd.date), cmd.index, cmd.removedEntry))

\* DailyFoodLog::addFoodToLog
logs1_addFoodToLog(foodName, servings) ==
    /\ phase = "menu" /\ variant = "logs1"
    /\ clock < MaxCommands
    /\ LET cmd == logs1_AddFoodCommand(currentDate, LogEntry(foodName, servings, Now))
       IN  /\ dailyLogs' = logs1_AddFoodCommand_execute(dailyLogs, cmd)
           /\ commandHistory' = Append(commandHistory, cmd)
           /\ clock' = cmd.seq
    /\ logModified' = TRUE
    /\ lastOp' = Request("addFoodToLog", AddArgs(currentDate, foodName, servings), "Added")
    /\ UNCHANGED <<variant, phase, loadVars, logFile, undoStack, currentDate>>

\* DailyFoodLog::removeFoodFromLog
logs1_removeFoodFromLog(index) ==
    /\ phase = "menu" /\ variant = "logs1"
    /\ IF currentDate \notin DOMAIN dailyLogs \/ index >= Len(dailyLogs[currentDate])
       THEN /\ lastOp' = Request("removeFoodFromLog", DeleteArgs(currentDate, index),
                                  "Invalid entry index.")
            /\ UNCHANGED <<dailyLogs, commandHistory, clock, logModified>>
       ELSE /\ clock < MaxCommands
            /\ LET cmd == logs1_RemoveFoodCommand(dailyLogs, currentDate, index)
               IN  /\ dailyLogs' = logs1_RemoveFoodCommand_execute(dailyLogs, cmd)
                   /\ commandHistory' = Append(commandHistory, cmd)
                   /\ clock' = cmd.seq
            /\ logModified' = TRUE
            /\ lastOp' = Request("removeFoodFromLog", DeleteArgs(currentDate, index), "Removed")
    /\ UNCHANGED <<variant, phase, loadVars, logFile, undoStack, currentDate>>

\* an undoLastCommand whose undone commands leave the modified flag alone
logs1_undoLastCommand_keepsFlag ==
    /\ phase = "menu" /\ variant = "logs1"
    /\ IF commandHistory = <<>>
       THEN /\ lastOp' = Request("undoLastCommand", NoArgs, "Nothing to undo.")
            /\ UNCHANGED <<dailyLogs, commandHistory, phase>>
       ELSE LET cmd == commandHistory[Len(commandHistory)] IN
            /\ commandHistory' = SubSeq(commandHistory, 1, Len(commandHistory) - 1)
            /\ lastOp' = Request("undoLastCommand", cmd, "Undoing")
            /\ IF cmd.kind = "add"
               THEN /\ dailyLogs' = logs1_AddFoodCommand_undo(dailyLogs, cmd)
                    /\ UNCHANGED phase
               ELSE IF cmd.index <= Len(Entries(dailyLogs, cmd.date))
               THEN /\ dailyLogs' = logs1_RemoveFoodCommand_undo(dailyLogs, cmd)
                    /\ UNCHANGED phase
               ELSE /\ phase' = "undefined"
                    /\ UNCHANGED dailyLogs
    /\ UNCHANGED <<variant, loadVars, logFile, undoStack, currentDate, clock, logModified>>

\* DailyFoodLog::undoLastCommand
logs1_undoLastCommand ==
    /\ phase = "menu" /\ variant = "logs1"
    /\ IF commandHistory = <<>>
       THEN /\ lastOp' = Request("undoLastCommand", NoArgs, "Nothing to undo.")
            /\ UNCHANGED <<dailyLogs, commandHistory, logModified, phase>>
       ELSE LET cmd == commandHistory[Len(commandHistory)] IN
            /\ commandHistory' = SubSeq(commandHistory, 1, Len(commandHistory) - 1)
            /\ lastOp' = Request("undoLastCommand", cmd, "Undoing")
            /\ IF cmd.kind = "add"
               THEN /\ dailyLogs' = logs1_AddFoodCommand_undo(dailyLogs, cmd)
                    /\ logModified' = IF Entries(dailyLogs, cmd.date) # <<>>
                                      THEN TRUE ELSE logModified
                    /\ UNCHANGED phase
               ELSE IF cmd.index <= Len(Entries(dailyLogs, cmd.date))
               THEN /\ dailyLogs' = logs1_RemoveFoodCommand_undo(dailyLogs, cmd)
                    /\ logModified' = TRUE
                    /\ UNCHANGED phase
               ELSE /\ phase' = "undefined"
                    /\ UNCHANGED <<dailyLogs, logModified>>
    /\ UNCHANGED <<variant, loadVars, logFile, undoStack, currentDate, clock>>

\* DailyFoodLog::setCurrentDate
logs1_setCurrentDate(date) ==
    /\ phase = "menu" /\ variant = "logs1"
    /\ IF isValidDateFormat(date)
       THEN /\ currentDate' = date
            /\ lastOp' = Request("setCurrentDate", [date |-> date], "Current date set")
       ELSE /\ lastOp' = Request("setCurrentDate", [date |-> date], "Invalid date format")
            /\ UNCHANGED currentDate
    /\ UNCHANGED <<variant, phase, loadVars, logFile, dailyLogs, undoStack,
                   commandHistory, logModified, clock>>

---------------------------------------------------------------------------
(* The programs: start() loads, then serves requests from the menu *)

\* log files of food.cpp: {"food", "servings", "calories"} entries under each date
FoodLogFiles ==
    { NoFile,
      File("2024-01-01" :> <<[food |-> "Rice", servings |-> 3000, calories |-> 600000]>>),
      File(("2024-01-01" :> <<>>) @@
           ("2024-01-02" :> <<[food |-> "Pizza", servings |-> 3000, calories |-> 900000]>>)) }

\* log files of logs1.cpp: {"foodName", "servings", "timestamp"} entries under each date
Logs1LogFiles ==
    { NoFile,
      File("2024-01-01" :> <<[foodName |-> "Rice", servings |-> 3000, timestamp |-> 0]>>),
      File(("2024-01-01" :> <<>>) @@
           ("2024-01-02" :> <<[foodName |-> "Pizza", servings |-> 3000, timestamp |-> 0]>>)) }

Init ==
    /\ variant \in {"food", "logs1"}
    /\ phase = "start"
    /\ dbFile = File(BurritoFile)
    /\ foods = EmptyMap
    /\ pendingFoods = EmptyMap
    /\ todo = <<>>
    /\ callStack = <<>>
    /\ diagnostics = <<>>
    /\ loadResult = "none"
    /\ modified = FALSE
    /\ logFile \in (IF variant = "food" THEN FoodLogFiles ELSE Logs1LogFiles)
    /\ dailyLogs = (IF variant = "food" THEN loadLogs(logFile) ELSE EmptyMap)
    /\ undoStack = <<>>
    /\ commandHistory = <<>>
    /\ currentDate = Today
    /\ logModified = FALSE
    /\ clock = 0
    /\ lastOp = Request("none", NoArgs, "none")

Next ==
    \/ loadDatabase
    \/ secondPass
    \/ loadComponent
    \/ createComposite
    \/ loadDone
    \/ \E new \in NewFoods : dbManager_addFood(new)
    \/ \E date \in Dates, foodName \in FoodInputs, servings \in ServingInputs :
           addFood(date, foodName, servings)
    \/ \E date \in Dates, index \in 0..MaxIndex : deleteFood(date, index)
    \/ undo
    \/ \E date \in DateInputs : setCurrentDate(date)
    \/ logs1_loadLogs
    \/ \E foodName \in FoodInputs, servings \in ServingInputs :
           logs1_addFoodToLog(foodName, servings)
    \/ \E index \in 0..MaxIndex : logs1_removeFoodFromLog(index)
    \/ logs1_undoLastCommand
    \/ \E date \in DateInputs : logs1_setCurrentDate(date)

Spec == Init /\ [][Next]_vars

---------------------------------------------------------------------------
(* The loader alone, over every database file *)

\* the program before start() with the database file dbFile0 and no log file
BeforeLoad(dbFile0) ==
    /\ variant = "food"
    /\ phase = "start"
    /\ dbFile = dbFile0
    /\ foods = EmptyMap
    /\ pendingFoods = EmptyMap
    /\ todo = <<>>
    /\ callStack = <<>>
    /\ diagnostics = <<>>
    /\ loadResult = "none"
    /\ modified = FALSE
    /\ logFile = NoFile
    /\ dailyLogs = EmptyMap
    /\ undoStack = <<>>
    /\ commandHistory = <<>>
    /\ currentDate = Today
    /\ logModified = FALSE
    /\ clock = 0
    /\ lastOp = Request("none", NoArgs, "none")

InitLoad ==
    /\ variant = "food"
    /\ phase = "start"
    /\ dbFile \in { File(f) : f \in AllDbFiles } \cup {NoFile}
    /\ foods = EmptyMap
    /\ pendingFoods = EmptyMap
    /\ todo = <<>>
    /\ callStack = <<>>
    /\ diagnostics = <<>>
    /\ loadResult = "none"
    /\ modified = FALSE
    /\ logFile = NoFile
    /\ dailyLogs = EmptyMap
    /\ undoStack = <<>>
    /\ commandHistory = <<>>
    /\ currentDate = Today
    /\ logModified = FALSE
    /\ clock = 0
    /\ lastOp = Request("none", NoArgs, "none")

NextLoad == loadDatabase \/ secondPass \/ loadComponent \/ createComposite \/ loadDone

SpecLoad == InitLoad /\ [][NextLoad]_vars

\* the records of a file written last to first
Reverse(file) == [i \in 1..Len(file) |-> file[Len(file) + 1 - i]]

\* the loader over every database file with its records in either order
InitLoadOrder == \E f \in AllDbFiles : BeforeLoad(File(f)) \/ BeforeLoad(File(Reverse(f)))

SpecLoadOrder == InitLoadOrder /\ [][NextLoad]_vars

\* the loader over files that may hold a malformed element
InitMalformed == \E f \in MalformedFiles : BeforeLoad(File(f))

SpecMalformed == InitMalformed /\ [][NextLoad]_vars

\* the catalog: loaded from any database file, then grown from the menu
NextCatalog ==
    \/ NextLoad
    \/ \E new \in NewFoods : dbManager_addFood(new)
    \/ \E name \in CompositeNames, entered \in SeqsUpTo(CompRefs, MaxComponents) :
           createCompositeFood(name, entered)

SpecCatalog == InitLoad /\ [][NextCatalog]_vars

\* loadDatabase runs to its end: the program is one thread that nothing stops
SpecLoadFair == SpecLoad /\ WF_vars(NextLoad)

---------------------------------------------------------------------------
(* Properties of the loader, checked under SpecLoad *)

\* every component a composite record names is the name of some record
NoMissing(file) ==
    \A i \in 1..Len(file) :
        file[i].type = "composite" =>
            \A j \in 1..Len(file[i].components) :
                file[i].components[j].name \in RecordNames(file)

\* the calories the records alone give to name (for an acyclic file with
\* no missing component)
RECURSIVE RecordCalories(_, _)
RecordCalories(file, name) ==
    IF name \in NamesOfType(file, "basic")
    THEN LastRecord(file, name, "basic").calories
    ELSE LET comps == LastRecord(file, name, "composite").components
         IN  SumSeq([i \in 1..Len(comps) |->
                        RecordCalories(file, comps[i].name) * comps[i].servings])

Composites == { c \in DOMAIN foods : foods[c].type = "composite" }

\* C2: after a load of a file with no missing component, every composite's
\* calories are the sum over the components its record lists of the
\* component's calories times its servings, and so, recursively, what the
\* records give; Rice 200, Beans 150, Burrito = [Rice x 2, Beans x 1] gives 550.
C2_CompositeCalories ==
    /\ (phase = "menu" /\ loadResult = "true" /\ NoMissing(dbFile.content)) =>
           \A c \in Composites :
               LET comps == LastRecord(dbFile.content, c, "composite").components IN
               /\ getCalories(foods, c) =
                      SumSeq([i \in 1..Len(comps) |->
                                 getCalories(foods, comps[i].name) * comps[i].servings])
               /\ getCalories(foods, c) = RecordCalories(dbFile.content, c)
    /\ (phase = "menu" /\ dbFile = File(BurritoFile)) =>
           getCalories(foods, "Burrito") = 550

\* a nested composite was loaded: Meal = [Burrito x 1, Rice x 2] over the
\* scenario's Burrito
C2_Witness ==
    /\ phase = "menu" /\ loadResult = "true" /\ NoMissing(dbFile.content)
    /\ {"Meal", "Burrito"} \subseteq Composites
    /\ foods["Meal"].components =
           <<FoodComponent("Burrito", 1), FoodComponent("Rice", 2)>>
    /\ Len(foods["Burrito"].components) = 2
    /\ getCalories(foods, "Meal") = 950

\* C7: a composite record naming a component that no record defines does not
\* fail the load: the warning names the component and the composite, the
\* composite keeps exactly its other components, in order, and its calories
\* are the sum over those.
C7_MissingComponent ==
    (phase = "menu" /\ dbFile.open) =>
        /\ loadResult = "true"
        /\ \A c \in Composites :
               LET comps == LastRecord(dbFile.content, c, "composite").components
                   kept  == SelectSeq(comps,
                                LAMBDA r : r.name \in RecordNames(dbFile.content))
               IN  /\ foods[c].components =
                          [i \in 1..Len(kept) |->
                              FoodComponent(kept[i].name, kept[i].servings)]
                   /\ \A i \in 1..Len(comps) :
                          comps[i].name \notin RecordNames(dbFile.content) =>
                              /\ ComponentNotFound(comps[i].name, c) \in Range(diagnostics)
                              /\ comps[i].name \notin DOMAIN foods
                   /\ getCalories(foods, c) =
                          SumSeq([i \in 1..Len(kept) |->
                                     getCalories(foods, kept[i].name) * kept[i].servings])

\* Burrito = [Rice x 2, Beans x 1] was loaded from a file with no Beans record
C7_Witness ==
    /\ phase = "menu" /\ loadResult = "true"
    /\ "Burrito" \in Composites
    /\ "Beans" \notin RecordNames(dbFile.content)
    /\ LastRecord(dbFile.content, "Burrito", "composite").components =
           <<Ref("Rice", 2), Ref("Beans", 1)>>
    /\ foods["Burrito"].components = <<FoodComponent("Rice", 2)>>
    /\ getCalories(foods, "Burrito") = 400
    /\ ComponentNotFound("Beans", "Burrito") \in Range(diagnostics)

---------------------------------------------------------------------------
(* Properties of the log engines, checked under Spec *)

\* the undo stack of the program that runs
Stack == IF variant = "food" THEN undoStack ELSE commandHistory

Last(s) == s[Len(s)]

Front(s) == SubSeq(s, 1, Len(s) - 1)

\* what an applied command printed, and what an undone one printed
ExecutedResults == { "Executed", "Added", "Removed" }
UndoneResults   == { "Undone", "Undoing" }
RefusedDelete   == { "Invalid food entry index.", "Invalid entry index." }

\* the inverse the program's undo applies for cmd
UndoOf(logs, cmd) ==
    IF variant = "food" THEN undoCommand(logs, cmd)
    ELSE IF cmd.kind = "add" THEN logs1_AddFoodCommand_undo(logs, cmd)
    ELSE logs1_RemoveFoodCommand_undo(logs, cmd)

\* the entry a delete command captured
Captured(cmd) == IF variant = "food" THEN cmd.deletedEntry ELSE cmd.removedEntry

\* the calories the program reports for an entry, and the total for a date
ReportedCalories(entry) ==
    IF variant = "food" THEN entry.calories
    ELSE calculateEntryCalories(entry.foodName, entry.servings)

Total(logs, date) ==
    SumSeq([i \in 1..Len(Entries(logs, date)) |-> ReportedCalories(Entries(logs, date)[i])])

SameMultiset(s, t) ==
    /\ Len(s) = Len(t)
    /\ \A e \in Range(s) \cup Range(t) :
           Cardinality({ i \in 1..Len(s) : s[i] = e }) =
           Cardinality({ i \in 1..Len(t) : t[i] = e })

SameObservable(a, b) ==
    /\ DOMAIN a = DOMAIN b
    /\ \A d \in DOMAIN a : SameMultiset(a[d], b[d]) /\ Total(a, d) = Total(b, d)

EntryCount(logs) ==
    Cardinality(UNION { { <<d, i>> : i \in 1..Len(logs[d]) } : d \in DOMAIN logs })

\* C1: whenever a command is applied, undoing it at once gives back the date
\* keys, the multiset of entries of every date and every date's total.
C1_ExecuteThenUndo ==
    [][ lastOp'.result \in ExecutedResults =>
            SameObservable(UndoOf(dailyLogs', Last(Stack')), dailyLogs) ]_vars

\* C1 in food.cpp alone
C1_ExecuteThenUndo_food ==
    [][ (variant = "food" /\ lastOp'.result \in ExecutedResults) =>
            SameObservable(UndoOf(dailyLogs', Last(Stack')), dailyLogs) ]_vars

\* C3: an undo with an empty stack prints "Nothing to undo." and changes
\* neither the ledger nor the stack nor the current date, and the program
\* goes on serving requests.
C3_UndoEmptyStack ==
    [][ (lastOp'.op \in {"undo", "undoLastCommand"} /\ Stack = <<>>) =>
            /\ lastOp'.result = "Nothing to undo."
            /\ phase' = "menu"
            /\ UNCHANGED <<dailyLogs, undoStack, commandHistory, currentDate>> ]_vars

\* an undo found the stack empty while the ledger held entries
C3_Witness ==
    /\ variant = "food" /\ phase = "menu"
    /\ lastOp.op = "undo" /\ lastOp.result = "Nothing to undo."
    /\ undoStack = <<>>
    /\ dailyLogs # EmptyMap

\* C4: an applied command takes effect once (one entry more for an add, one
\* less for a delete) and is pushed, numbered by the order of execution, on
\* top of the one stack; an undo pops the top, which is the latest command
\* executed and not yet undone, whatever its date; nothing else moves the stack.
C4_LIFO ==
    [][ /\ lastOp'.result \in ExecutedResults =>
               /\ Front(Stack') = Stack
               /\ Len(Stack') = Len(Stack) + 1
               /\ Last(Stack').seq = clock + 1 /\ clock' = clock + 1
               /\ \A i \in 1..Len(Stack) : Stack[i].seq <= clock
               /\ Last(Stack').date = lastOp'.args.date
               /\ EntryCount(dailyLogs') = EntryCount(dailyLogs)
                      + (IF Last(Stack').kind = "add" THEN 1 ELSE -1)
        /\ lastOp'.result \in UndoneResults =>
               /\ Stack # <<>>
               /\ Stack' = Front(Stack)
               /\ lastOp'.args = Last(Stack)
               /\ \A i \in 1..Len(Stack') : Stack'[i].seq < Last(Stack).seq
               /\ dailyLogs' = UndoOf(dailyLogs, Last(Stack))
               /\ EntryCount(dailyLogs') = EntryCount(dailyLogs)
                      + (IF Last(Stack).kind = "add" THEN -1 ELSE 1)
        /\ lastOp'.result \notin ExecutedResults \cup UndoneResults =>
               Stack' = Stack ]_vars

\* two commands on different dates were applied and the later one was undone
C4_Witness ==
    /\ variant = "food"
    /\ lastOp.result = "Undone" /\ lastOp.args.seq = 2
    /\ Len(undoStack) = 1 /\ undoStack[1].seq = 1
    /\ undoStack[1].date # lastOp.args.date

\* C5: an add of a catalog food on a date with no entries makes the date's
\* total the food's calories times the servings (Rice 200 x 1.5 = 300), and
\* undoing it, at once or later, removes the date key.
C5_AddOnEmptyDate ==
    [][ /\ (variant = "food" /\ lastOp'.op = "addFood" /\ lastOp'.result = "Executed"
              /\ lastOp'.args.date \notin DOMAIN dailyLogs) =>
               LET a == lastOp'.args IN
               /\ Total(dailyLogs', a.date) = getCalories(foods, a.foodName) * a.servings
               /\ (a.foodName = "Rice" /\ a.servings = 3000) =>
                      Total(dailyLogs', a.date) = 300 * ServUnit
               /\ a.date \notin DOMAIN UndoOf(dailyLogs', Last(undoStack'))
        /\ (variant = "food" /\ lastOp'.result = "Undone" /\ lastOp'.args.kind = "add"
              /\ Len(Entries(dailyLogs, lastOp'.args.date)) = 1) =>
               lastOp'.args.date \notin DOMAIN dailyLogs' ]_vars

\* Rice x 1.5 was added on a date with no entries and the add was undone
C5_Witness ==
    /\ variant = "food" /\ ~logFile.open /\ clock = 1
    /\ lastOp.result = "Undone" /\ lastOp.args.kind = "add"
    /\ lastOp.args.foodName = "Rice" /\ lastOp.args.servings = 3000
    /\ lastOp.args.calories = 300 * ServUnit
    /\ dailyLogs = EmptyMap

\* C6: deleting the only entry of a date removes the date key and captures
\* the entry; undoing the delete, at once or later, brings the key back with
\* exactly the captured entry.
C6_DeleteOnlyEntry ==
    [][ /\ (lastOp'.op \in {"deleteFood", "removeFoodFromLog"}
              /\ lastOp'.result \in ExecutedResults
              /\ Len(Entries(dailyLogs, lastOp'.args.date)) = 1) =>
               LET d == lastOp'.args.date IN
               /\ d \notin DOMAIN dailyLogs'
               /\ Captured(Last(Stack')) = dailyLogs[d][1]
               /\ UndoOf(dailyLogs', Last(Stack')) = dailyLogs
        /\ (lastOp'.result \in UndoneResults /\ lastOp'.args.kind \in {"delete", "remove"}
              /\ lastOp'.args.date \notin DOMAIN dailyLogs) =>
               /\ lastOp'.args.date \in DOMAIN dailyLogs'
               /\ dailyLogs'[lastOp'.args.date] = <<Captured(lastOp'.args)>> ]_vars

\* the loaded date's only entry was deleted and the delete was undone
C6_Witness ==
    /\ variant = "food" /\ clock = 1
    /\ lastOp.result = "Undone" /\ lastOp.args.kind = "delete"
    /\ lastOp.args.index = 0
    /\ dailyLogs = loadLogs(logFile)
    /\ lastOp.args.date \in DOMAIN dailyLogs
    /\ dailyLogs[lastOp.args.date] = <<lastOp.args.deletedEntry>>

\* C8: adding a food to the catalog changes neither the calories reported for
\* any entry of the ledger nor any date's reported total.
C8_Snapshot ==
    [][ lastOp'.op = "dbManager.addFood" =>
            /\ dailyLogs' = dailyLogs
            /\ \A d \in DOMAIN dailyLogs :
                   /\ \A i \in 1..Len(dailyLogs[d]) :
                          ReportedCalories(dailyLogs[d][i])' =
                              ReportedCalories(dailyLogs[d][i])
                   /\ Total(dailyLogs, d)' = Total(dailyLogs, d) ]_vars

\* C8 in food.cpp alone
C8_Snapshot_food ==
    [][ (variant = "food" /\ lastOp'.op = "dbManager.addFood") =>
            /\ dailyLogs' = dailyLogs
            /\ \A d \in DOMAIN dailyLogs : Total(dailyLogs, d)' = Total(dailyLogs, d) ]_vars

\* C9: a request to log a food that the catalog does not hold changes neither
\* the ledger nor the undo stack.
C9_UnknownFoodRejected ==
    [][ (lastOp'.op \in {"addFood", "addFoodToLog"}
           /\ lastOp'.args.foodName \notin DOMAIN foods) =>
            UNCHANGED <<dailyLogs, undoStack, commandHistory>> ]_vars

\* C9 in food.cpp alone
C9_UnknownFoodRejected_food ==
    [][ (lastOp'.op = "addFood" /\ lastOp'.args.foodName \notin DOMAIN foods) =>
            /\ lastOp'.result = "Food not found"
            /\ UNCHANGED <<dailyLogs, undoStack, commandHistory>> ]_vars

\* C10: a delete request for a date with no entries, or with an index at or
\* beyond the length of the date's sequence, is refused and changes neither
\* the ledger (its keys and entries) nor the undo stack.
C10_InvalidDeleteRefused ==
    [][ (lastOp'.op \in {"deleteFood", "removeFoodFromLog"}
           /\ lastOp'.args.index >= Len(Entries(dailyLogs, lastOp'.args.date))) =>
            /\ lastOp'.result \in RefusedDelete
            /\ UNCHANGED <<dailyLogs, undoStack, commandHistory>> ]_vars

\* a delete at the index just past the last entry of a date was refused
\* while the undo stack held a command
C10_Witness ==
    /\ variant = "food"
    /\ lastOp.op = "deleteFood" /\ lastOp.result \in RefusedDelete
    /\ lastOp.args.date \in DOMAIN dailyLogs
    /\ lastOp.args.index = Len(dailyLogs[lastOp.args.date])
    /\ undoStack # <<>>

---------------------------------------------------------------------------
(* The current date, checked under SpecDates: the session with every date   *)
(* string of DateStrings offered to setCurrentDate                          *)

NextDates ==
    \/ loadDatabase \/ secondPass \/ loadComponent \/ createComposite \/ loadDone
    \/ logs1_loadLogs
    \/ \E date \in DateStrings : setCurrentDate(date)
    \/ \E date \in DateStrings : logs1_setCurrentDate(date)
    \/ \E foodName \in FoodInputs, servings \in ServingInputs :
           addFood(currentDate, foodName, servings)
    \/ \E foodName \in FoodInputs, servings \in ServingInputs :
           logs1_addFoodToLog(foodName, servings)

SpecDates == Init /\ [][NextDates]_vars

\* a valid YYYY-MM-DD calendar date, said over the characters of the string
ValidCalendarDate(dateStr) ==
    LET s == Chars(dateStr) IN
    /\ Len(s) = 10
    /\ s[5] = "-" /\ s[8] = "-"
    /\ \A i \in {1, 2, 3, 4, 6, 7, 9, 10} : s[i] \in Range(Digits)
    /\ LET y == 1000 * DigitValue(s[1]) + 100 * DigitValue(s[2])
                  + 10 * DigitValue(s[3]) + DigitValue(s[4])
           m == 10 * DigitValue(s[6]) + DigitValue(s[7])
           d == 10 * DigitValue(s[9]) + DigitValue(s[10])
           leap == IF y % 100 = 0 THEN y % 400 = 0 ELSE y % 4 = 0
       IN  /\ m \in 1..12
           /\ d >= 1
           /\ d <= (CASE m \in {4, 6, 9, 11} -> 30
                      [] m = 2 -> IF leap THEN 29 ELSE 28
                      [] OTHER -> 31)

\* C11: a date change asked with a string that is no valid calendar date is
\* refused and leaves the current date, the ledger and the undo stack as
\* they were; the current date is a valid date in every state.
C11_InvalidDateRefused ==
    [][ /\ (lastOp'.op = "setCurrentDate" /\ ~ValidCalendarDate(lastOp'.args.date)) =>
               /\ lastOp'.result = "Invalid date format"
               /\ UNCHANGED <<currentDate, dailyLogs, undoStack, commandHistory>>
        /\ ValidCalendarDate(currentDate') ]_vars

\* C11 in food.cpp alone
C11_InvalidDateRefused_food ==
    [][ variant = "food" =>
        /\ (lastOp'.op = "setCurrentDate" /\ ~ValidCalendarDate(lastOp'.args.date)) =>
               /\ lastOp'.result = "Invalid date format"
               /\ UNCHANGED <<currentDate, dailyLogs, undoStack, commandHistory>>
        /\ (lastOp'.op = "setCurrentDate" /\ ValidCalendarDate(lastOp'.args.date)) =>
               currentDate' = lastOp'.args.date
        /\ ValidCalendarDate(currentDate') ]_vars

---------------------------------------------------------------------------
(* Keyword search: FoodDatabaseManager::searchFoodsByKeywords (food.cpp),   *)
(* FoodDiary::searchFoodsByKeywords (log.cpp) and                           *)
(* DietAssistantCLI::searchFoodWithKeywords (logs1.cpp), checked under      *)
(* SpecSearch over catalogs whose foods carry keywords                      *)

\* the characters of the names and keywords the search model uses
Text(str) ==
    CASE str = "Rice"   -> <<"R", "i", "c", "e">>
      [] str = "Beans"  -> <<"B", "e", "a", "n", "s">>
      [] str = "Grain"  -> <<"G", "r", "a", "i", "n">>
      [] str = "Legume" -> <<"L", "e", "g", "u", "m", "e">>
      [] str = "rice"   -> <<"r", "i", "c", "e">>
      [] str = "GRAIN"  -> <<"G", "R", "A", "I", "N">>
      [] str = "an"     -> <<"a", "n">>
      [] str = "grain"  -> <<"g", "r", "a", "i", "n">>
      [] str = "legume" -> <<"l", "e", "g", "u", "m", "e">>

\* ::tolower on one character
tolower(c) ==
    CASE c = "A" -> "a" [] c = "B" -> "b" [] c = "G" -> "g" [] c = "I" -> "i"
      [] c = "L" -> "l" [] c = "N" -> "n" [] c = "R" -> "r" [] OTHER -> c

\* transform(..., ::tolower) over a string
toLower(s) == [i \in 1..Len(s) |-> tolower(s[i])]

\* string::find(needle) != string::npos
find(hay, needle) ==
    \E i \in 0..(Len(hay) - Len(needle)) : SubSeq(hay, i + 1, i + Len(needle)) = needle

\* a food with its keywords
KeywordFood(calories, keywords) ==
    [type |-> "basic", calories |-> calories, keywords |-> keywords]

\* the keyword lists a food may carry, the catalogs searched and the queries
KeywordLists   == { <<>>, <<"Grain">>, <<"Legume">>, <<"Legume", "Grain">> }
SearchCatalogs ==
    UNION { [names -> { KeywordFood(100, k) : k \in KeywordLists }]
                : names \in SUBSET {"Rice", "Beans"} }
QueryKeywords  == { "rice", "GRAIN", "an" }
MaxKeywords    == 2
Queries        == SeqsUpTo(QueryKeywords, MaxKeywords)

\* FoodDatabaseManager::searchFoodsByKeywords (food.cpp)
searchFoodsByKeywords(fs, keywords, matchall) ==
    LET cnt(name) ==
            Cardinality({ i \in 1..Len(keywords) :
                \E j \in 1..Len(fs[name].keywords) :
                    find(toLower(Text(fs[name].keywords[j])), toLower(Text(keywords[i]))) })
        keep(name) == IF matchall THEN cnt(name) = Len(keywords) ELSE cnt(name) > 0
    IN  SelectSeq(SortedNames(DOMAIN fs), keep)

\* the loop over the search keywords of FoodDiary::searchFoodsByKeywords (log.cpp)
RECURSIVE log_matches(_, _, _, _, _)
log_matches(fs, name, keywords, matchAll, matches) ==
    IF keywords = <<>> THEN matches
    ELSE LET lowerKeyword == toLower(Text(Head(keywords)))
             inKeywords   == \E j \in 1..Len(fs[name].keywords) :
                                 find(toLower(Text(fs[name].keywords[j])), lowerKeyword)
             keywordFound == inKeywords \/ find(toLower(Text(name)), lowerKeyword)
         IN  IF ~matchAll /\ keywordFound THEN TRUE
             ELSE log_matches(fs, name, Tail(keywords), matchAll,
                              IF matchAll THEN matches /\ keywordFound
                              ELSE matches \/ keywordFound)

\* FoodDiary::searchFoodsByKeywords (log.cpp)
log_searchFoodsByKeywords(fs, keywords, matchAll) ==
    LET keep(name) == log_matches(fs, name, keywords, matchAll, matchAll)
    IN  SelectSeq(SortedNames(DOMAIN fs), keep)

\* FoodDatabaseManager::searchFoods as logs1.cpp uses it: the foods whose
\* name or one of whose keywords contains the query, whatever the case
dbManager_searchFoods(fs, query) ==
    LET keep(name) ==
            \/ find(toLower(Text(name)), toLower(Text(query)))
            \/ \E j \in 1..Len(fs[name].keywords) :
                   find(toLower(Text(fs[name].keywords[j])), toLower(Text(query)))
    IN  SelectSeq(SortedNames(DOMAIN fs), keep)

\* results.push_back(food) for the foods of found that results does not hold
RECURSIVE pushNew(_, _)
pushNew(results, found) ==
    IF found = <<>> THEN results
    ELSE pushNew(IF Head(found) \in Range(results) THEN results
                 ELSE Append(results, Head(found)), Tail(found))

RECURSIVE anyResults(_, _, _)
anyResults(fs, keywords, results) ==
    IF keywords = <<>> THEN results
    ELSE anyResults(fs, Tail(keywords),
                    pushNew(results, dbManager_searchFoods(fs, Head(keywords))))

\* DietAssistantCLI::searchFoodWithKeywords (logs1.cpp) on the parsed keywords
searchFoodWithKeywords(fs, keywords, matchChoiceAll) ==
    IF keywords = <<>> THEN <<>>
    ELSE IF ~matchChoiceAll THEN anyResults(fs, keywords, <<>>)
    ELSE LET foundFoods == UNION { Range(dbManager_searchFoods(fs, keywords[i])) :
                                       i \in 1..Len(keywords) }
             matchesKeyword(name, keyword) ==
                 \/ find(toLower(Text(name)), toLower(Text(keyword)))
                 \/ \E j \in 1..Len(fs[name].keywords) :
                        find(toLower(Text(fs[name].keywords[j])), toLower(Text(keyword)))
             matchesAll(name) ==
                 \A i \in 1..Len(keywords) : matchesKeyword(name, keywords[i])
         IN  SelectSeq(SortedNames(foundFoods), matchesAll)

SearchArgs(keywords, matchAll) == [keywords |-> keywords, matchAll |-> matchAll]

\* a search that lowercases the keywords of the foods where they are stored
\* and not in a copy
searchFoods_inPlace(keywords, matchAll) ==
    /\ phase = "menu" /\ variant = "food"
    /\ lastOp' = Request("searchFoodsByKeywords", SearchArgs(keywords, matchAll),
                         IF keywords = <<>> THEN "No keywords provided."
                         ELSE searchFoodsByKeywords(foods, keywords, matchAll))
    /\ foods' = IF keywords = <<>> THEN foods
                ELSE [n \in DOMAIN foods |->
                         [foods[n] EXCEPT !.keywords =
                             [j \in 1..Len(@) |->
                                 CASE @[j] = "Grain"  -> "grain"
                                   [] @[j] = "Legume" -> "legume"
                                   [] OTHER           -> @[j]]]]
    /\ UNCHANGED <<variant, phase, dbFile, pendingFoods, todo, callStack, diagnostics,
                   loadResult, modified, diaryVars>>

\* DietAssistantCLI::searchFoods (food.cpp): a keyword search from the menu
searchFoods(keywords, matchAll) ==
    /\ phase = "menu" /\ variant = "food"
    /\ lastOp' = Request("searchFoodsByKeywords", SearchArgs(keywords, matchAll),
                         IF keywords = <<>> THEN "No keywords provided."
                         ELSE searchFoodsByKeywords(foods, keywords, matchAll))
    /\ UNCHANGED <<variant, phase, loadVars, diaryVars>>

\* the keyword search of log.cpp's add-to-log dialogue
log_searchFoods(keywords, matchAll) ==
    /\ phase = "menu" /\ variant = "log"
    /\ lastOp' = Request("searchFoodsByKeywords", SearchArgs(keywords, matchAll),
                         IF keywords = <<>> THEN "No keywords provided."
                         ELSE log_searchFoodsByKeywords(foods, keywords, matchAll))
    /\ UNCHANGED <<variant, phase, loadVars, diaryVars>>

\* the keyword search of logs1.cpp's add-to-log dialogue
logs1_searchFoods(keywords, matchAll) ==
    /\ phase = "menu" /\ variant = "logs1"
    /\ lastOp' = Request("searchFoodsByKeywords", SearchArgs(keywords, matchAll),
                         searchFoodWithKeywords(foods, keywords, matchAll))
    /\ UNCHANGED <<variant, phase, loadVars, diaryVars>>

\* the session at the menu with a catalog of SearchCatalogs: read from the
\* database file in log.cpp, entered from the menu in food.cpp and logs1.cpp
InitSearch ==
    /\ variant \in {"food", "log", "logs1"}
    /\ phase = "menu"
    /\ foods \in SearchCatalogs
    /\ dbFile = (IF variant = "log" THEN File(SortedNames(DOMAIN foods)) ELSE NoFile)
    /\ pendingFoods = EmptyMap
    /\ todo = <<>>
    /\ callStack = <<>>
    /\ diagnostics = <<>>
    /\ loadResult = (IF variant = "log" THEN "true" ELSE "false")
    /\ modified = (variant # "log" /\ foods # EmptyMap)
    /\ logFile = NoFile
    /\ dailyLogs = EmptyMap
    /\ undoStack = <<>>
    /\ commandHistory = <<>>
    /\ currentDate = Today
    /\ logModified = FALSE
    /\ clock = 0
    /\ lastOp = Request("none", NoArgs, "none")

NextSearch ==
    \/ \E keywords \in Queries, matchAll \in BOOLEAN : searchFoods(keywords, matchAll)
    \/ \E keywords \in Queries, matchAll \in BOOLEAN : log_searchFoods(keywords, matchAll)
    \/ \E keywords \in Queries, matchAll \in BOOLEAN : logs1_searchFoods(keywords, matchAll)

SpecSearch == InitSearch /\ [][NextSearch]_vars

\* the lowercased keyword is a substring of the lowercased name or of one of
\* the lowercased keywords of the food
Matches(name, keyword) ==
    \/ find(toLower(Text(name)), toLower(Text(keyword)))
    \/ \E j \in 1..Len(foods[name].keywords) :
           find(toLower(Text(foods[name].keywords[j])), toLower(Text(keyword)))

\* a search that ran, with its keywords
Searched == lastOp.op = "searchFoodsByKeywords" /\ lastOp.args.keywords # <<>>

\* C12: a search with one keyword returns a food exactly when the lowercased
\* keyword is a substring of the food's lowercased name or of one of its
\* lowercased keywords.
C12_KeywordMatch ==
    (Searched /\ Len(lastOp.args.keywords) = 1) =>
        \A name \in DOMAIN foods :
            name \in Range(lastOp.result) <=> Matches(name, lastOp.args.keywords[1])

\* C12 in log.cpp and logs1.cpp
C12_KeywordMatch_log ==
    (variant # "food" /\ Searched /\ Len(lastOp.args.keywords) = 1) =>
        \A name \in DOMAIN foods :
            name \in Range(lastOp.result) <=> Matches(name, lastOp.args.keywords[1])

\* C13: a search in "all" mode returns exactly the foods every keyword
\* matches, in "any" mode exactly the foods at least one keyword matches,
\* and no food twice.
C13_SearchModes ==
    Searched =>
        LET keywords == lastOp.args.keywords
            result   == lastOp.result
        IN  /\ \A name \in DOMAIN foods :
                   name \in Range(result) <=>
                       IF lastOp.args.matchAll
                       THEN \A i \in 1..Len(keywords) : Matches(name, keywords[i])
                       ELSE \E i \in 1..Len(keywords) : Matches(name, keywords[i])
            /\ Range(result) \subseteq DOMAIN foods
            /\ \A i, j \in 1..Len(result) : result[i] = result[j] => i = j

\* C13 in log.cpp and logs1.cpp
C13_SearchModes_log ==
    (variant # "food" /\ Searched) =>
        LET keywords == lastOp.args.keywords
            result   == lastOp.result
        IN  /\ \A name \in DOMAIN foods :
                   name \in Range(result) <=>
                       IF lastOp.args.matchAll
                       THEN \A i \in 1..Len(keywords) : Matches(name, keywords[i])
                       ELSE \E i \in 1..Len(keywords) : Matches(name, keywords[i])
            /\ \A i, j \in 1..Len(result) : result[i] = result[j] => i = j

\* C13 in food.cpp with the keywords of a food alone deciding a match
C13_SearchModes_foodKeywords ==
    (variant = "food" /\ Searched) =>
        LET keywords == lastOp.args.keywords
            result   == lastOp.result
            inKeywords(name, keyword) ==
                \E j \in 1..Len(foods[name].keywords) :
                    find(toLower(Text(foods[name].keywords[j])), toLower(Text(keyword)))
        IN  /\ \A name \in DOMAIN foods :
                   name \in Range(result) <=>
                       IF lastOp.args.matchAll
                       THEN \A i \in 1..Len(keywords) : inKeywords(name, keywords[i])
                       ELSE \E i \in 1..Len(keywords) : inKeywords(name, keywords[i])
            /\ \A i, j \in 1..Len(result) : result[i] = result[j] => i = j

---------------------------------------------------------------------------
(* Resolution of the food graph, checked under SpecLoadFair and SpecLoad *)

\* the composite records a composite record names as components
CompositeRefs(file, c) ==
    { r.name : r \in Range(LastRecord(file, c, "composite").components) }
        \cap (NamesOfType(file, "composite") \ NamesOfType(file, "basic"))

\* the composites reached from the set S in at most n steps
RECURSIVE ReachedFrom(_, _, _)
ReachedFrom(file, S, n) ==
    IF n = 0 THEN S
    ELSE ReachedFrom(file, S \cup UNION { CompositeRefs(file, c) : c \in S }, n - 1)

\* no composite record reaches itself through component references
AcyclicRecords(file) ==
    \A c \in NamesOfType(file, "composite") \ NamesOfType(file, "basic") :
        c \notin ReachedFrom(file, CompositeRefs(file, c), Len(file))

\* C14: with acyclic composite references loadDatabase finishes, it never
\* exhausts the call stack, it ends only when no pending composite is left
\* and every composite record is in the catalog, and every return from
\* loadCompositeFood stores a composite under a name the catalog did not
\* hold (a composite is constructed at most once).
C14_ResolutionTerminates ==
    /\ (dbFile.open /\ AcyclicRecords(dbFile.content)) =>
           <>(phase = "menu" /\ loadResult = "true")
    /\ [](AcyclicRecords(dbFile.content) =>
             /\ phase # "overflow"
             /\ (phase = "menu" /\ loadResult = "true") =>
                    /\ todo = <<>> /\ callStack = <<>>
                    /\ NamesOfType(dbFile.content, "composite") \subseteq DOMAIN foods)
    /\ [][ (AcyclicRecords(dbFile.content) /\ Len(callStack') < Len(callStack)) =>
               /\ Top.name \notin DOMAIN foods
               /\ foods' = MapPut(foods, Top.name, CompositeFood(Top.components)) ]_vars

\* a load finished in which Meal named the composite Burrito twice
C14_Witness ==
    /\ phase = "menu" /\ loadResult = "true"
    /\ AcyclicRecords(dbFile.content)
    /\ {"Burrito", "Meal"} \subseteq NamesOfType(dbFile.content, "composite")
    /\ "Meal" \in DOMAIN foods
    /\ foods["Meal"].components =
           <<FoodComponent("Burrito", 1), FoodComponent("Burrito", 1)>>

---------------------------------------------------------------------------
(* The catalog, checked under SpecCatalog *)

\* the foods a food of the catalog fs names as components
ComponentNames(fs, name) ==
    IF fs[name].type = "composite"
    THEN { fs[name].components[i].food : i \in 1..Len(fs[name].components) }
    ELSE {}

\* the foods reached from the set S through at most n component references
RECURSIVE ComponentsWithin(_, _, _)
ComponentsWithin(fs, S, n) ==
    IF n = 0 THEN S
    ELSE ComponentsWithin(fs,
             S \cup UNION { ComponentNames(fs, c) : c \in S \cap DOMAIN fs }, n - 1)

\* C15: no food of the catalog has itself as a component, directly or
\* through other foods, and every component is a food of the catalog.
C15_AcyclicCatalog ==
    \A name \in DOMAIN foods :
        /\ ComponentNames(foods, name) \subseteq DOMAIN foods
        /\ name \notin ComponentsWithin(foods, ComponentNames(foods, name),
                                        Cardinality(DOMAIN foods))

\* a composite made from the menu has a loaded composite as a component
C15_Witness ==
    /\ phase = "menu"
    /\ lastOp.op = "dbManager.addFood" /\ lastOp.result = "added"
    /\ lastOp.args.name = "Meal"
    /\ "Burrito" \in ComponentNames(foods, "Meal")
    /\ "Burrito" \in NamesOfType(dbFile.content, "composite")
    /\ "Meal" \notin RecordNames(dbFile.content)

---------------------------------------------------------------------------
(* Determinism of the resolution, checked under SpecLoadOrder *)

\* the calories the set of records gives to name, a component no record
\* defines counting for nothing; no order of the records or of the
\* resolution enters
RECURSIVE CaloriesOfRecords(_, _)
CaloriesOfRecords(records, name) ==
    LET r == CHOOSE x \in records : x.name = name IN
    IF r.type = "basic" THEN r.calories
    ELSE SumSeq([i \in 1..Len(r.components) |->
                    IF r.components[i].name \in { x.name : x \in records }
                    THEN CaloriesOfRecords(records, r.components[i].name)
                             * r.components[i].servings
                    ELSE 0])

\* C16: the catalog a finished load leaves is a function of the set of
\* records alone: its names are the names of the records and every food's
\* calories are what the records give it, whatever the order in which the
\* records were written and the composites were resolved.
C16_Deterministic ==
    (phase = "menu" /\ loadResult = "true") =>
        /\ DOMAIN foods = RecordNames(dbFile.content)
        /\ \A name \in DOMAIN foods :
               getCalories(foods, name) = CaloriesOfRecords(Range(dbFile.content), name)

\* Meal = [Burrito x 1, Rice x 2] was loaded from a file that lists Meal
\* before Burrito and both before Rice and Beans
C16_Witness ==
    /\ phase = "menu" /\ loadResult = "true"
    /\ Len(dbFile.content) = 4
    /\ dbFile.content[1].name = "Meal" /\ dbFile.content[2].name = "Burrito"
    /\ dbFile.content[1].components = <<Ref("Burrito", 1), Ref("Rice", 2)>>
    /\ dbFile.content[2].components = <<Ref("Rice", 2), Ref("Beans", 1)>>
    /\ getCalories(foods, "Meal") = 950

---------------------------------------------------------------------------
(* Malformed records, checked under SpecMalformed *)

\* some element of the file is no object or lacks a field its type requires
Malformed(file) ==
    \E i \in 1..Len(file) : file[i].type = "not an object" \/ Missing(file[i]) # {}

\* C17: a load of a file with a malformed element that comes to its end
\* reports failure, and a load of a file whose only defect is a missing
\* component succeeds.
C17_MalformedAborts ==
    /\ (dbFile.open /\ Malformed(dbFile.content) /\ phase = "menu") =>
           loadResult = "false"
    /\ (dbFile.open /\ ~Malformed(dbFile.content) /\ phase = "menu") =>
           loadResult = "true"

\* C17 for the elements that are no objects and the composite records
\* without keywords: the load ends, reporting failure
C17_MalformedAborts_thrown ==
    /\ (/\ dbFile.open /\ phase \notin {"start", "secondPass"}
        /\ \E i \in 1..Len(dbFile.content) :
               \/ dbFile.content[i].type = "not an object"
               \/ "keywords" \in Missing(dbFile.content[i])
        /\ \A i \in 1..Len(dbFile.content) :
               Missing(dbFile.content[i]) \cap {"calories", "components"} = {}) =>
           (phase = "menu" /\ loadResult = "false")
    /\ (dbFile.open /\ ~Malformed(dbFile.content) /\ phase = "menu") =>
           loadResult = "true"

---------------------------------------------------------------------------
(* Unique names, checked under Spec *)

\* C18: addFood with a name the catalog already holds is refused: it reports
\* that the food already exists, and the food stored under the name, the other
\* foods of the catalog and the modified flag are as they were.
C18_DuplicateRefused ==
    [][(lastOp'.op = "dbManager.addFood" /\ lastOp'.args.name \in DOMAIN foods) =>
           /\ lastOp'.result = "already exists"
           /\ foods' = foods
           /\ modified' = modified]_vars

\* Rice was loaded, the catalog is unmodified, and adding another Rice was refused
C18_Witness ==
    /\ lastOp.op = "dbManager.addFood"
    /\ lastOp.args.name = "Rice"
    /\ lastOp.result = "already exists"
    /\ "Rice" \in DOMAIN foods
    /\ foods["Rice"] # BasicFood(999)
    /\ ~modified

---------------------------------------------------------------------------
(* No redo, checked under Spec *)

\* the commands that were executed and are on the stack no more: the undone ones
Undone == { s \in 1..clock : \A i \in 1..Len(Stack) : Stack[i].seq # s }

\* C19: a command undo has popped stays off the stack for good, the command
\* an undo inverts was not undone before and is undone after, a command that
\* is executed was never undone, and at the menu the entries change only by
\* the execution of a new command or by an undo: nothing redoes a command.
C19_NoRedo ==
    [][ /\ Undone \subseteq Undone'
        /\ lastOp'.result \in UndoneResults =>
               /\ lastOp'.args.seq \notin Undone
               /\ lastOp'.args.seq \in Undone'
        /\ lastOp'.result \in ExecutedResults =>
               /\ Last(Stack').seq \notin Undone
               /\ \A i \in 1..Len(Stack) : Stack[i].seq # Last(Stack').seq
        /\ (phase = "menu" /\ EntryCount(dailyLogs') # EntryCount(dailyLogs)) =>
               lastOp'.result \in ExecutedResults \cup UndoneResults ]_vars

\* a command was undone, another one was executed after it and undone as well
C19_Witness ==
    /\ lastOp.result \in UndoneResults /\ lastOp.args.seq = 2
    /\ Stack = <<>>
    /\ Undone = {1, 2}

---------------------------------------------------------------------------
(* One instance per name, checked under SpecLoad *)

\* the catalog entries the components of the composite fs binds to name refer to
Referenced(fs, name) ==
    { fs[name].components[i].food : i \in 1..Len(fs[name].components) }

\* C20: during the second pass of a load a name the catalog binds keeps the
\* food it is bound to; no call of loadCompositeFood builds a name the catalog
\* binds already (it gets the entry of the catalog); and every component, of
\* a composite under construction or of a stored one, is an entry of the
\* catalog, so that two composites naming one component hold the same entry.
C20_OneInstancePerName ==
    [][ /\ phase = "secondPass" =>
               \A n \in DOMAIN foods : n \in DOMAIN foods' /\ foods'[n] = foods[n]
        /\ \A i \in 1..Len(callStack') : callStack'[i].name \notin DOMAIN foods
        /\ \A i \in 1..Len(callStack') :
               \A k \in 1..Len(callStack'[i].components) :
                   callStack'[i].components[k].food \in DOMAIN foods'
        /\ \A a \in DOMAIN foods' : foods'[a].type = "composite" =>
               /\ Referenced(foods', a) \subseteq DOMAIN foods'
               /\ \A b \in DOMAIN foods' : foods'[b].type = "composite" =>
                      \A n \in Referenced(foods', a) \cap Referenced(foods', b) :
                          foods'[n] = foods[n] \/ n \notin DOMAIN foods ]_vars

\* Burrito and Meal both name Rice, and Meal, built as a component of
\* Burrito, was asked for again by the second pass
C20_Witness ==
    /\ phase = "menu" /\ loadResult = "true"
    /\ {"Burrito", "Meal"} \subseteq NamesOfType(dbFile.content, "composite")
    /\ {"Burrito", "Meal", "Rice"} \subseteq DOMAIN foods
    /\ foods["Burrito"].components = <<FoodComponent("Meal", 2), FoodComponent("Rice", 2)>>
    /\ foods["Meal"].components = <<FoodComponent("Rice", 2)>>
    /\ foods["Rice"].type = "basic"

---------------------------------------------------------------------------
(* What the undo of a command does to its date, checked under Spec *)

\* the food name and the servings an Add command was made for
CommandFood(cmd) == IF variant = "food" THEN cmd.foodName ELSE cmd.entry.foodName

CommandServings(cmd) == IF variant = "food" THEN cmd.servings ELSE cmd.entry.servings

\* the positions of entries that hold the command's food in servings that
\* differ from the command's by less than the tolerance
MatchingEntries(entries, cmd) ==
    { i \in 1..Len(entries) :
        /\ entries[i].foodName = CommandFood(cmd)
        /\ Abs(entries[i].servings - CommandServings(cmd)) < Tolerance }

\* s without its k-th element
Without(s, k) == [i \in 1..(Len(s) - 1) |-> IF i < k THEN s[i] ELSE s[i + 1]]

C22_UndoDeleteAppends ==
    [][(lastOp'.result \in UndoneResults /\ lastOp'.args.kind # "add"
            /\ phase' # "undefined") =>
          LET cmd == lastOp'.args
          IN  /\ Entries(dailyLogs', cmd.date) =
                     Append(Entries(dailyLogs, cmd.date), Captured(cmd))
              /\ \A d \in (DOMAIN dailyLogs \cup DOMAIN dailyLogs') \ {cmd.date} :
                     Entries(dailyLogs', d) = Entries(dailyLogs, d)]_vars

\* C22 for food.cpp alone
C22_UndoDeleteAppends_food ==
    [][(variant = "food" /\ lastOp'.result \in UndoneResults
            /\ lastOp'.args.kind # "add") =>
          LET cmd == lastOp'.args
          IN  /\ Entries(dailyLogs', cmd.date) =
                     Append(Entries(dailyLogs, cmd.date), Captured(cmd))
              /\ \A d \in (DOMAIN dailyLogs \cup DOMAIN dailyLogs') \ {cmd.date} :
                     Entries(dailyLogs', d) = Entries(dailyLogs, d)]_vars

---------------------------------------------------------------------------
(* Date keys of the ledger, checked under Spec *)

\* C23: once the logs are loaded, no date key of the ledger maps to an empty
\* sequence of entries, whatever adds, deletes and undos follow.
C23_NoEmptyDate ==
    phase = "menu" => \A d \in DOMAIN dailyLogs : dailyLogs[d] # <<>>

\* C23 for food.cpp alone
C23_NoEmptyDate_food ==
    (variant = "food" /\ phase = "menu") => \A d \in DOMAIN dailyLogs : dailyLogs[d] # <<>>

---------------------------------------------------------------------------
(* Depth of the undo stack, checked under Spec *)

\* the step is a request that is to be refused: an add of a food the catalog
\* does not hold, a delete at an index the date does not have, a change to
\* a date that is none, or an undo while the stack is empty
RefusedRequest ==
    \/ /\ lastOp'.op \in {"addFood", "addFoodToLog"}
       /\ getFood(lastOp'.args.foodName) = NULL
    \/ /\ lastOp'.op \in {"deleteFood", "removeFoodFromLog"}
       /\ lastOp'.args.index >= Len(Entries(dailyLogs, lastOp'.args.date))
    \/ /\ lastOp'.op = "setCurrentDate"
       /\ ~ValidCalendarDate(lastOp'.args.date)
    \/ /\ lastOp'.op \in {"undo", "undoLastCommand"}
       /\ Stack = <<>>

\* the depth of the stack moves with the commands applied and undone: an
\* applied command is one more applied and one deeper, an undo is one more
\* undone and one less deep, anything else leaves all three alone, and the
\* depth is the commands applied less the commands undone
DepthCounts ==
    /\ lastOp'.result \in ExecutedResults =>
           /\ clock' = clock + 1
           /\ Cardinality(Undone') = Cardinality(Undone)
           /\ Len(Stack') = Len(Stack) + 1
    /\ lastOp'.result \in UndoneResults =>
           /\ clock' = clock
           /\ Cardinality(Undone') = Cardinality(Undone) + 1
           /\ Len(Stack') = Len(Stack) - 1 /\ Len(Stack) >= 1
    /\ lastOp'.result \notin ExecutedResults \cup UndoneResults =>
           /\ clock' = clock
           /\ Cardinality(Undone') = Cardinality(Undone)
           /\ Len(Stack') = Len(Stack)
    /\ Len(Stack') = clock' - Cardinality(Undone')

\* C24: the depth of the undo stack is the number of commands applied less
\* the number of undos that found a command, and a request that is to be
\* refused (unknown food, invalid index, invalid date, undo on an empty
\* stack) leaves the depth as it is.
C24_StackDepth ==
    [][ /\ DepthCounts
        /\ RefusedRequest => Len(Stack') = Len(Stack) ]_vars

\* C24 for food.cpp alone
C24_StackDepth_food ==
    [][ variant = "food" =>
            /\ DepthCounts
            /\ RefusedRequest => Len(Stack') = Len(Stack) ]_vars

\* the depth counts of C24 in both programs, refusals left aside
C24_StackDepth_counts == [][DepthCounts]_vars

---------------------------------------------------------------------------
(* The entry a Delete command captures, checked under Spec *)

\* the calories the program reports for entry while its catalog is fs
CaloriesIn(fs, entry) ==
    IF variant = "food" THEN entry.calories
    ELSE IF entry.foodName \in DOMAIN fs
    THEN getCalories(fs, entry.foodName) * entry.servings
    ELSE 0

\* the capture, the time on the stack and the undo of the Delete commands:
\* the command made by a delete holds the entry at its index; while a Delete
\* command is on the stack the entry it holds keeps its food name, servings
\* and calories; and the entry its undo puts into the date is that entry
\* with those calories
CaptureKept ==
    /\ (lastOp'.result \in ExecutedResults /\ Last(Stack').kind # "add") =>
           LET cmd == Last(Stack')
           IN  /\ cmd.index < Len(Entries(dailyLogs, cmd.date))
               /\ Captured(cmd) = Entries(dailyLogs, cmd.date)[cmd.index + 1]
    /\ \A i \in 1..Len(Stack) :
           (Stack[i].kind # "add" /\ i <= Len(Stack')) =>
               /\ Stack'[i] = Stack[i]
               /\ CaloriesIn(foods', Captured(Stack[i])) =
                      CaloriesIn(foods, Captured(Stack[i]))
    /\ (lastOp'.result \in UndoneResults /\ lastOp'.args.kind # "add") =>
           LET cmd == lastOp'.args
               old == Entries(dailyLogs, cmd.date)
               new == Entries(dailyLogs', cmd.date)
           IN  /\ cmd = Last(Stack)
               /\ \E k \in 1..Len(new) :
                      /\ new[k] = Captured(cmd)
                      /\ Without(new, k) = old
                      /\ CaloriesIn(foods', new[k]) = CaloriesIn(foods, Captured(cmd))

\* C25: a Delete command holds a copy of the entry at its index, taken when
\* the command is made, and the entry its undo puts back has the food name,
\* the servings and the calories of that copy, whatever was done to the
\* ledger and the catalog between the execute and the undo.
C25_DeleteCapture == [][CaptureKept]_vars

\* C25 for food.cpp alone
C25_DeleteCapture_food == [][variant = "food" => CaptureKept]_vars

---------------------------------------------------------------------------
(* Composite records that carry a calories field: food.cpp and log.cpp *)

\* a composite record as toJson writes it, with the calories the writer
\* computed or an editor left
StoredRecord(name, components, calories) ==
    [type |-> "composite", name |-> name, components |-> components, calories |-> calories]

\* Burrito = Rice x 2 + Beans x 1 = 550 and Meal = Burrito x 1 + Rice x 2 = 950,
\* written with these calories or with others
StoredBurritos ==
    { <<StoredRecord("Burrito", <<Ref("Rice", 2), Ref("Beans", 1)>>, c)>> : c \in {550, 999} }

StoredMeals ==
    { <<>> } \cup
    { <<StoredRecord("Meal", <<Ref("Burrito", 1), Ref("Rice", 2)>>, c)>> : c \in {950, 0} }

StoredFiles ==
    { <<BasicRecord("Rice", 200), BasicRecord("Beans", 150)>> \o u \o m :
          u \in StoredBurritos, m \in StoredMeals }

\* names a log request names over these files
StoredInputs == { "Rice", "Burrito", "Meal" }

\* Food::Food(const json&) of log.cpp: the calories are the record's field,
\* the components a map from name to servings
log_Food(record) ==
    [type       |-> record.type,
     calories   |-> record.calories,
     components |-> IF record.type = "composite"
                    THEN [n \in { record.components[i].name :
                                     i \in 1..Len(record.components) } |->
                             LET idx == { i \in 1..Len(record.components) :
                                            record.components[i].name = n }
                             IN  record.components[CHOOSE i \in idx :
                                                      \A j \in idx : j <= i].servings]
                    ELSE EmptyMap]

\* FoodDiary::loadDatabase of log.cpp: foods[food.name] = food for every record
log_loadDatabase ==
    /\ phase = "start" /\ variant = "log"
    /\ foods' = IF ~dbFile.open THEN EmptyMap
                ELSE [n \in RecordNames(dbFile.content) |->
                         LET idx == { i \in 1..Len(dbFile.content) :
                                        dbFile.content[i].name = n }
                         IN  log_Food(dbFile.content[CHOOSE i \in idx :
                                                        \A j \in idx : j <= i])]
    /\ phase' = "menu"
    /\ lastOp' = Request("loadDatabase", NoArgs, "none")
    /\ UNCHANGED <<variant, dbFile, pendingFoods, todo, callStack, diagnostics,
                   loadResult, modified, diaryVars>>

\* AddFoodCommand's constructor in log.cpp: the calories field of the food
log_AddFoodCommand(dt, name, servs) ==
    [kind |-> "add", date |-> dt, foodName |-> name, servings |-> servs,
     calories |-> IF name \in DOMAIN foods THEN foods[name].calories * servs ELSE 0,
     seq |-> clock + 1]

\* FoodDiary::addFood of log.cpp
log_addFood(date, foodName, servings) ==
    /\ phase = "menu" /\ variant = "log"
    /\ IF foodName \notin DOMAIN foods
       THEN /\ lastOp' = Request("addFood", AddArgs(date, foodName, servings), "Food not found")
            /\ UNCHANGED <<dailyLogs, undoStack, clock>>
       ELSE /\ clock < MaxCommands
            /\ executeCommand(dailyLogs, log_AddFoodCommand(date, foodName, servings))
            /\ lastOp' = Request("addFood", AddArgs(date, foodName, servings), "Executed")
    /\ UNCHANGED <<variant, phase, loadVars, logFile, commandHistory, currentDate,
                   logModified>>

\* FoodDiary::undo of log.cpp
log_undo ==
    /\ phase = "menu" /\ variant = "log"
    /\ IF undoStack = <<>>
       THEN /\ lastOp' = Request("undo", NoArgs, "Nothing to undo.")
            /\ UNCHANGED <<dailyLogs, undoStack>>
       ELSE /\ undoStack' = SubSeq(undoStack, 1, Len(undoStack) - 1)
            /\ dailyLogs' = undoCommand(dailyLogs, undoStack[Len(undoStack)])
            /\ lastOp' = Request("undo", undoStack[Len(undoStack)], "Undone")
    /\ UNCHANGED <<variant, phase, loadVars, logFile, commandHistory, currentDate,
                   logModified, clock>>

\* either program before it loads a database file of StoredFiles
InitStored ==
    /\ variant \in {"food", "log"}
    /\ phase = "start"
    /\ dbFile \in { File(f) : f \in StoredFiles }
    /\ foods = EmptyMap
    /\ pendingFoods = EmptyMap
    /\ todo = <<>>
    /\ callStack = <<>>
    /\ diagnostics = <<>>
    /\ loadResult = "none"
    /\ modified = FALSE
    /\ logFile = NoFile
    /\ dailyLogs = EmptyMap
    /\ undoStack = <<>>
    /\ commandHistory = <<>>
    /\ currentDate = Today
    /\ logModified = FALSE
    /\ clock = 0
    /\ lastOp = Request("none", NoArgs, "none")

NextStored ==
    \/ variant = "food" /\ loadDatabase
    \/ secondPass
    \/ loadComponent
    \/ createComposite
    \/ loadDone
    \/ log_loadDatabase
    \/ \E date \in Dates, foodName \in StoredInputs, servings \in ServingInputs :
           addFood(date, foodName, servings)
    \/ \E date \in Dates, foodName \in StoredInputs, servings \in ServingInputs :
           log_addFood(date, foodName, servings)
    \/ undo
    \/ log_undo

SpecStored == InitStored /\ [][NextStored]_vars

\* C26: the calories of an entry made by logging a composite food are the
\* sum over the composite's components of the component's calories times
\* its servings, derived down to the basic foods, times the servings
\* logged, whatever calories field the composite's record carries.
C26_DerivedCalories ==
    [][(/\ lastOp'.op = "addFood" /\ lastOp'.result = "Executed"
        /\ lastOp'.args.foodName \in NamesOfType(dbFile.content, "composite")) =>
          LET date    == lastOp'.args.date
              entries == Entries(dailyLogs', date)
          IN  /\ entries = Append(Entries(dailyLogs, date), Last(entries))
              /\ Last(entries).foodName = lastOp'.args.foodName
              /\ Last(entries).calories =
                     RecordCalories(dbFile.content, lastOp'.args.foodName)
                         * lastOp'.args.servings]_vars

\* C26 for food.cpp alone
C26_DerivedCalories_food ==
    [][(/\ variant = "food"
        /\ lastOp'.op = "addFood" /\ lastOp'.result = "Executed"
        /\ lastOp'.args.foodName \in NamesOfType(dbFile.content, "composite")) =>
          LET date    == lastOp'.args.date
              entries == Entries(dailyLogs', date)
          IN  /\ entries = Append(Entries(dailyLogs, date), Last(entries))
              /\ Last(entries).foodName = lastOp'.args.foodName
              /\ Last(entries).calories =
                     RecordCalories(dbFile.content, lastOp'.args.foodName)
                         * lastOp'.args.servings]_vars

---------------------------------------------------------------------------
(* The catalog under the menu of food.cpp: foods with keywords are added,
   searched for and logged *)

\* a food with the keywords the dialogue read for it
WithKeywords(food, keywords) ==
    [x \in DOMAIN food \cup {"keywords"} |-> IF x = "keywords" THEN keywords ELSE food[x]]

\* DietAssistantCLI::addBasicFood with the name, calories and keywords entered
addBasicFood(name, calories, keywords) ==
    dbManager_addFood([name |-> name, food |-> KeywordFood(calories, keywords)])

\* DietAssistantCLI::createCompositeFood with the keywords entered as well
createCompositeFoodWithKeywords(name, keywords, entered) ==
    IF foundComponents(entered) = <<>>
    THEN /\ phase = "menu"
         /\ lastOp' = Request("createCompositeFood", [name |-> name], "cancelled")
         /\ UNCHANGED <<variant, phase, loadVars, diaryVars>>
    ELSE dbManager_addFood([name |-> name,
                            food |-> WithKeywords(CompositeFood(foundComponents(entered)),
                                                  keywords)])

\* what the dialogues are given
FrameBasics     == { "Rice", "Pizza" }
FrameCalories   == { 100, 300 }
FrameKeywords   == { <<>>, <<"Grain">> }
FrameComposites == { "Burrito", "Rice" }
FrameEntered    == { <<Ref("Rice", 2)>>, <<Ref("Pizza", 1), Ref("Burrito", 1)>> }
FrameQueries    == { <<>>, <<"GRAIN">>, <<"an", "rice">> }
FrameLogged     == { "Rice", "Burrito" }

\* the menu after a start that found neither a database file nor a log file
InitFrame ==
    /\ variant = "food"
    /\ phase = "menu"
    /\ dbFile = NoFile
    /\ foods = EmptyMap
    /\ pendingFoods = EmptyMap
    /\ todo = <<>>
    /\ callStack = <<>>
    /\ diagnostics = <<>>
    /\ loadResult = "false"
    /\ modified = FALSE
    /\ logFile = NoFile
    /\ dailyLogs = EmptyMap
    /\ undoStack = <<>>
    /\ commandHistory = <<>>
    /\ currentDate = Today
    /\ logModified = FALSE
    /\ clock = 0
    /\ lastOp = Request("none", NoArgs, "none")

NextFrame ==
    \/ \E name \in FrameBasics, calories \in FrameCalories, keywords \in FrameKeywords :
           addBasicFood(name, calories, keywords)
    \/ \E name \in FrameComposites, entered \in FrameEntered :
           createCompositeFoodWithKeywords(name, <<"Legume">>, entered)
    \/ \E keywords \in FrameQueries, matchAll \in BOOLEAN : searchFoods(keywords, matchAll)
    \/ \E foodName \in FrameLogged : addFood(currentDate, foodName, ServUnit)
    \/ \E index \in 0..1 : deleteFood(currentDate, index)
    \/ undo

SpecFrame == InitFrame /\ [][NextFrame]_vars

\* C27: in every step at the menu, each food of the catalog stays under its
\* name with its type, keywords, components and calories, and the calories
\* it reports stay the same; the catalog changes only by an addFood that
\* adds one name it did not hold.
C27_CatalogFrame ==
    [][ /\ \A n \in DOMAIN foods :
               /\ n \in DOMAIN foods'
               /\ foods'[n] = foods[n]
               /\ getCalories(foods', n) = getCalories(foods, n)
        /\ foods' # foods =>
               /\ lastOp'.op = "dbManager.addFood" /\ lastOp'.result = "added"
               /\ lastOp'.args.name \notin DOMAIN foods
               /\ DOMAIN foods' = DOMAIN foods \cup {lastOp'.args.name} ]_vars

\* Rice and a Burrito made of it are in the catalog, two commands were
\* applied and undone, and a search that names a keyword of Rice has run
C27_Witness ==
    /\ {"Rice", "Burrito"} \subseteq DOMAIN foods
    /\ foods["Burrito"].type = "composite"
    /\ foods["Rice"].keywords = <<"Grain">>
    /\ clock = 2 /\ undoStack = <<>>
    /\ lastOp.op = "searchFoodsByKeywords"
    /\ lastOp.args.keywords = <<"GRAIN">>
    /\ lastOp.result = <<"Rice">>

---------------------------------------------------------------------------
(* Cyclic composite records, checked under SpecLoadFair *)

\* the composite records that reach themselves through component references
OnCycle(file) ==
    { c \in NamesOfType(file, "composite") \ NamesOfType(file, "basic") :
        c \in ReachedFrom(file, CompositeRefs(file, c), Len(file)) }

\* C28: when composite records form a reference cycle, a composite that
\* lists itself included, loadDatabase does not come to its end: it reports
\* neither success nor failure and the menu is not reached, the recursion
\* goes on until the call stack is exhausted, with a composite of the cycle
\* in every frame from some depth on, and no composite of the cycle is ever
\* in the catalog.
C28_CycleNeverCompletes ==
    /\ (dbFile.open /\ OnCycle(dbFile.content) # {}) => <>(phase = "overflow")
    /\ []((dbFile.open /\ OnCycle(dbFile.content) # {}) =>
             /\ phase # "menu" /\ loadResult = "none"
             /\ DOMAIN foods \cap OnCycle(dbFile.content) = {}
             /\ phase = "overflow" =>
                    /\ Len(callStack) = StackLimit
                    /\ \E k \in 1..Len(callStack) : \A i \in k..Len(callStack) :
                           callStack[i].name \in OnCycle(dbFile.content))

\* Burrito names Meal and Meal names Burrito: the calls alternate between
\* the two until the stack is full, and Rice is all the catalog holds
C28_Witness ==
    /\ phase = "overflow"
    /\ Len(callStack) = StackLimit
    /\ callStack[1].name = "Burrito" /\ callStack[2].name = "Meal"
    /\ callStack[3].name = "Burrito" /\ callStack[4].name = "Meal"
    /\ DOMAIN foods = {"Rice"}

---------------------------------------------------------------------------
(* Add commands made by addFood and made directly, food.cpp and log.cpp *)

\* names a command is made for; Pizza is in no file of StoredFiles
CommandInputs == StoredInputs \cup { "Pizza" }

\* executeCommand(make_shared<AddFoodCommand>(diary, date, foodName, servings)):
\* the public constructor and executeCommand, with no lookup before them
executeAddFoodCommand(date, foodName, servings) ==
    /\ phase = "menu" /\ variant = "food"
    /\ clock < MaxCommands
    /\ executeCommand(dailyLogs, AddFoodCommand(date, foodName, servings))
    /\ lastOp' = Request("executeCommand", AddArgs(date, foodName, servings), "Executed")
    /\ UNCHANGED <<variant, phase, loadVars, logFile, commandHistory, currentDate,
                   logModified>>

\* the same in log.cpp
log_executeAddFoodCommand(date, foodName, servings) ==
    /\ phase = "menu" /\ variant = "log"
    /\ clock < MaxCommands
    /\ executeCommand(dailyLogs, log_AddFoodCommand(date, foodName, servings))
    /\ lastOp' = Request("executeCommand", AddArgs(date, foodName, servings), "Executed")
    /\ UNCHANGED <<variant, phase, loadVars, logFile, commandHistory, currentDate,
                   logModified>>

NextCommands ==
    \/ NextStored
    \/ \E date \in Dates, foodName \in CommandInputs, servings \in ServingInputs :
           executeAddFoodCommand(date, foodName, servings)
    \/ \E date \in Dates, foodName \in CommandInputs, servings \in ServingInputs :
           log_executeAddFoodCommand(date, foodName, servings)

SpecCommands == InitStored /\ [][NextCommands]_vars

\* the calories of one serving of a food of the database file: derived from
\* the records in food.cpp, the calories field of its record in log.cpp
CaloriesOfFood(name) ==
    IF variant = "food" THEN RecordCalories(dbFile.content, name)
    ELSE LET idx == { i \in 1..Len(dbFile.content) : dbFile.content[i].name = name }
         IN  dbFile.content[CHOOSE i \in idx : \A j \in idx : j <= i].calories

\* C29: an Add command made for a name the catalog does not hold takes 0 for
\* its calories, one made for a food of the catalog takes the food's calories
\* times the servings; its execute appends one entry of the name, the
\* servings and these calories at the end of its date and touches no other
\* date.
C29_AddSnapshot ==
    [][(lastOp'.op \in {"addFood", "executeCommand"} /\ lastOp'.result = "Executed") =>
          LET cmd  == Last(undoStack')
              name == lastOp'.args.foodName
              date == lastOp'.args.date
          IN  /\ cmd.foodName = name /\ cmd.date = date
              /\ cmd.servings = lastOp'.args.servings
              /\ cmd.calories = IF name \notin DOMAIN foods THEN 0
                                ELSE CaloriesOfFood(name) * cmd.servings
              /\ name \notin DOMAIN foods <=> name \notin RecordNames(dbFile.content)
              /\ Entries(dailyLogs', date) =
                     Append(Entries(dailyLogs, date),
                            FoodEntry(name, cmd.servings, cmd.calories))
              /\ \A d \in (DOMAIN dailyLogs \cup DOMAIN dailyLogs') \ {date} :
                     Entries(dailyLogs', d) = Entries(dailyLogs, d)]_vars

\* a command for Pizza, which the catalog does not hold, was made and
\* executed on a date that held an entry of Burrito: the entry of Pizza has
\* 0 calories and stands behind the entry of Burrito
C29_Witness ==
    /\ variant = "food"
    /\ lastOp.op = "executeCommand" /\ lastOp.args.foodName = "Pizza"
    /\ "Pizza" \notin DOMAIN foods
    /\ Len(Entries(dailyLogs, lastOp.args.date)) = 2
    /\ Entries(dailyLogs, lastOp.args.date)[1] = FoodEntry("Burrito", 3000, 550 * 3000)
    /\ Entries(dailyLogs, lastOp.args.date)[2] = FoodEntry("Pizza", lastOp.args.servings, 0)

---------------------------------------------------------------------------
(* Names no record defines, checked under SpecLoad *)

\* the loop of loadCompositeFood is at a component that is neither in the
\* catalog nor a pending composite
AtUnknownComponent ==
    /\ phase = "secondPass" /\ callStack # <<>>
    /\ Top.next <= Len(pendingFoods[Top.name].components)
    /\ pendingFoods[Top.name].components[Top.next].name
           \notin DOMAIN foods \cup DOMAIN pendingFoods

\* C30: resolving a name that is neither a loaded food nor a pending
\* composite gives the missing-food diagnostic and no food: the composite
\* under construction gets no component for it and goes on with its next
\* one, and the catalog stays as it is; the catalog never holds a name no
\* record has, and after a successful load its names are exactly the names
\* of the basic and the composite records.
C30_UnknownNameNotCreated ==
    [][ /\ AtUnknownComponent =>
               /\ foods' = foods /\ pendingFoods' = pendingFoods
               /\ phase' = phase
               /\ callStack' = ReplaceTop([Top EXCEPT !.next = @ + 1])
               /\ FoodNotFound(pendingFoods[Top.name].components[Top.next].name)
                      \in Range(diagnostics')
        /\ DOMAIN foods' \subseteq RecordNames(dbFile.content)
        /\ (phase' = "menu" /\ loadResult' = "true") =>
               DOMAIN foods' = NamesOfType(dbFile.content, "basic")
                                  \cup NamesOfType(dbFile.content, "composite") ]_vars

\* Burrito and Meal both name Beans, which no record defines: the load
\* succeeded and the catalog holds Rice, Burrito and Meal and no Beans
C30_Witness ==
    /\ phase = "menu" /\ loadResult = "true"
    /\ DOMAIN foods = {"Rice", "Burrito", "Meal"}
    /\ RecordNames(dbFile.content) = {"Rice", "Burrito", "Meal"}
    /\ ComponentNotFound("Beans", "Burrito") \in Range(diagnostics)
    /\ ComponentNotFound("Beans", "Meal") \in Range(diagnostics)

---------------------------------------------------------------------------
(* Undoing every command, checked under Spec *)

\* the ledger food.cpp held when the undo stack was first empty: the loaded one
LoadedLedger == loadLogs(logFile)

\* the food names under date, with their multiplicities, are the same in a and b
SameNames(a, b, date) ==
    SameMultiset([i \in 1..Len(Entries(a, date)) |-> Entries(a, date)[i].foodName],
                 [i \in 1..Len(Entries(b, date)) |-> Entries(b, date)[i].foodName])

\* C31: in food.cpp, whenever the undo stack is empty again, every date holds
\* the multiset of entries (food name, servings, calories) it held when the
\* stack was last empty, that is, the multiset the ledger was loaded with.
C31_UndoAllRestores ==
    (variant = "food" /\ phase = "menu" /\ undoStack = <<>>) =>
        \A d \in Dates : SameMultiset(Entries(dailyLogs, d), Entries(LoadedLedger, d))

\* C31 for the food names alone: with the stack empty again every date holds
\* the food names it was loaded with, as many times each
C31_UndoAllRestores_names ==
    (variant = "food" /\ phase = "menu" /\ undoStack = <<>>) =>
        \A d \in Dates : SameNames(dailyLogs, LoadedLedger, d)

---------------------------------------------------------------------------
(* Undo as an exact inverse in logs1.cpp, checked under Spec *)

\* the ledger DailyFoodLog::loadLogs builds from the log file
logs1_Loaded ==
    IF ~logFile.open THEN EmptyMap
    ELSE [d \in DOMAIN logFile.content |->
             [i \in 1..Len(logFile.content[d]) |->
                 LogEntry(logFile.content[d][i].foodName, logFile.content[d][i].servings,
                          logFile.content[d][i].timestamp)]]

\* the ledger logs after the commands cmds executed on it, the oldest first
RECURSIVE Replay(_, _)
Replay(logs, cmds) ==
    IF cmds = <<>> THEN logs
    ELSE Replay(IF Head(cmds).kind = "add"
                THEN logs1_AddFoodCommand_execute(logs, Head(cmds))
                ELSE logs1_RemoveFoodCommand_execute(logs, Head(cmds)),
                Tail(cmds))

\* no date of the ledger maps to an empty sequence
NoEmptySequence(logs) == \A d \in DOMAIN logs : logs[d] # <<>>

\* C32: in logs1.cpp, with a ledger loaded without empty date sequences, every
\* undoLastCommand leaves exactly the ledger (date keys, entries, order) that
\* the undone command found when it executed: the loaded ledger after the
\* commands still on the stack below it.
C32_UndoExactInverse ==
    [][ (variant = "logs1" /\ NoEmptySequence(logs1_Loaded) /\ lastOp'.result = "Undoing") =>
            /\ phase' = "menu"
            /\ dailyLogs' = Replay(logs1_Loaded, commandHistory') ]_vars

\* a remove of the first of two different entries has been undone, and the
\* loaded entry is back in front of the added one
C32_Witness ==
    /\ variant = "logs1" /\ phase = "menu"
    /\ NoEmptySequence(logs1_Loaded)
    /\ lastOp.result = "Undoing" /\ lastOp.args.kind = "remove" /\ lastOp.args.index = 0
    /\ Len(commandHistory) = 1 /\ commandHistory[1].kind = "add"
    /\ Len(Entries(dailyLogs, currentDate)) = 2
    /\ dailyLogs[currentDate][1] = lastOp.args.removedEntry
    /\ dailyLogs[currentDate][1] # dailyLogs[currentDate][2]

\* C32 without the condition on the loaded ledger
C32_UndoExactInverse_anyLedger ==
    [][ (variant = "logs1" /\ lastOp'.result = "Undoing") =>
            dailyLogs' = Replay(logs1_Loaded, commandHistory') ]_vars

---------------------------------------------------------------------------
(* The index of a remove that is undone, checked under Spec *)

\* C33: in logs1.cpp, whenever the command undoLastCommand would undo is a
\* remove, its stored index is at most the length of its date's sequence, so
\* insert(begin() + index) is never asked past the end and no undo runs into
\* undefined behaviour.
C33_UndoIndexInRange ==
    variant = "logs1" =>
        /\ phase # "undefined"
        /\ (commandHistory # <<>> /\ Last(commandHistory).kind = "remove") =>
               Last(commandHistory).index <= Len(Entries(dailyLogs, Last(commandHistory).date))

\* a remove of the last of two entries has been undone: its index was the
\* length of the date's sequence, and the entry went back behind the other
C33_Witness ==
    /\ variant = "logs1" /\ phase = "menu"
    /\ lastOp.result = "Undoing" /\ lastOp.args.kind = "remove"
    /\ lastOp.args.index = 1
    /\ Len(Entries(dailyLogs, lastOp.args.date)) = 2
    /\ dailyLogs[lastOp.args.date][2] = lastOp.args.removedEntry

---------------------------------------------------------------------------
(* The placeholder entry of DeleteFoodCommand, checked under Spec *)

\* the entry DeleteFoodCommand's constructor starts from
Placeholder == FoodEntry("", 0, 0)

\* the entries the log file gave the ledger
LoadedEntries == UNION { Range(LoadedLedger[d]) : d \in DOMAIN LoadedLedger }

\* the entries an accepted addFood appends: a catalog food, with the calories
\* of the servings asked
AddedEntries ==
    { FoodEntry(n, s, getCalories(foods, n) * s) :
          n \in FoodInputs \cap DOMAIN foods, s \in ServingInputs }

\* C34: in food.cpp no addFood, deleteFood or undo puts the placeholder entry
\* (empty name, 0 servings, 0 calories) into the ledger, and no delete command
\* on the stack holds it: every entry was loaded or appended by an accepted add.
C34_NoPlaceholder ==
    variant = "food" =>
        /\ \A d \in DOMAIN dailyLogs : \A i \in 1..Len(dailyLogs[d]) :
               /\ dailyLogs[d][i] # Placeholder
               /\ dailyLogs[d][i] \in LoadedEntries \cup AddedEntries
        /\ \A k \in 1..Len(undoStack) :
               undoStack[k].kind = "delete" =>
                   undoStack[k].deletedEntry \in LoadedEntries \cup AddedEntries

\* a delete has been undone and the entry it put back is the one it took
C34_Witness ==
    /\ variant = "food" /\ phase = "menu"
    /\ lastOp.op = "undo" /\ lastOp.result = "Undone" /\ lastOp.args.kind = "delete"
    /\ lastOp.args.deletedEntry # Placeholder
    /\ Last(Entries(dailyLogs, lastOp.args.date)) = lastOp.args.deletedEntry

---------------------------------------------------------------------------
(* What a command leaves alone, checked under Spec *)

\* the date keys and the entries of every date but date are the same in a and b
SameElsewhere(a, b, date) ==
    /\ DOMAIN a \ {date} = DOMAIN b \ {date}
    /\ \A d \in DOMAIN a \ {date} : a[d] = b[d]

\* C35: whenever a command for date D is executed or undone, the date keys and
\* the entry sequences of every other date, the catalog and the current date
\* are what they were.
C35_CommandFrame ==
    [][ lastOp'.result \in ExecutedResults \cup UndoneResults =>
            /\ SameElsewhere(dailyLogs, dailyLogs', lastOp'.args.date)
            /\ foods' = foods
            /\ currentDate' = currentDate ]_vars

\* a command of another date than the current one has been undone while the
\* current date holds entries
C35_Witness ==
    /\ phase = "menu"
    /\ lastOp.result \in UndoneResults
    /\ lastOp.args.date # currentDate
    /\ Entries(dailyLogs, currentDate) # <<>>
    /\ foods # EmptyMap

---------------------------------------------------------------------------
(* The catalog after a failed load, checked under SpecMalformed *)

\* C36: when loadDatabase has failed on a malformed record of a file it
\* could open, the catalog is empty: no food of the records before the
\* malformed one can be looked up, searched or logged.
C36_FailedLoadEmpty ==
    (dbFile.open /\ Malformed(dbFile.content) /\ phase = "menu" /\ loadResult = "false") =>
        foods = EmptyMap

---------------------------------------------------------------------------
(* Saving, and the modified flags *)

\* Food::toJson, CompositeFood::toJson and FoodComponent::toJson of the food
\* that fs binds to name: the calories written are the computed ones
toJson(fs, name) ==
    IF fs[name].type = "basic"
    THEN [type |-> "basic", name |-> name, calories |-> getCalories(fs, name)]
    ELSE [type |-> "composite", name |-> name, calories |-> getCalories(fs, name),
          components |-> [i \in 1..Len(fs[name].components) |->
                             Ref(fs[name].components[i].food,
                                 fs[name].components[i].servings)]]

\* FoodDatabaseManager::saveDatabase; opened tells whether the file could be
\* opened for writing
saveDatabase(opened) ==
    /\ phase = "menu" /\ variant = "food"
    /\ IF opened
       THEN /\ dbFile' = File([i \in 1..Len(SortedNames(DOMAIN foods)) |->
                                  toJson(foods, SortedNames(DOMAIN foods)[i])])
            /\ modified' = FALSE
            /\ lastOp' = Request("saveDatabase", NoArgs, "Database saved")
       ELSE /\ lastOp' = Request("saveDatabase", NoArgs, "Unable to open file for writing")
            /\ UNCHANGED <<dbFile, modified>>
    /\ UNCHANGED <<variant, phase, foods, pendingFoods, todo, callStack, diagnostics,
                   loadResult, diaryVars>>

\* LogEntry::toJson
LogEntry_toJson(entry) ==
    [foodName |-> entry.foodName, servings |-> entry.servings, timestamp |-> entry.timestamp]

\* DailyFoodLog::saveLogs
logs1_saveLogs(opened) ==
    /\ phase = "menu" /\ variant = "logs1"
    /\ IF opened
       THEN /\ logFile' = File([d \in DOMAIN dailyLogs |->
                                   [i \in 1..Len(dailyLogs[d]) |->
                                       LogEntry_toJson(dailyLogs[d][i])]])
            /\ logModified' = FALSE
            /\ lastOp' = Request("saveLogs", NoArgs, "Logs saved")
       ELSE /\ lastOp' = Request("saveLogs", NoArgs, "Unable to open log file for writing")
            /\ UNCHANGED <<logFile, logModified>>
    /\ UNCHANGED <<variant, phase, loadVars, dailyLogs, undoStack, commandHistory,
                   currentDate, clock>>

\* the catalog of food.cpp and the ledger of logs1.cpp, loaded, changed from
\* the menu and saved
NextSave ==
    \/ loadDatabase
    \/ secondPass
    \/ loadComponent
    \/ createComposite
    \/ loadDone
    \/ variant = "food" /\ \E new \in NewFoods : dbManager_addFood(new)
    \/ \E opened \in BOOLEAN : saveDatabase(opened)
    \/ logs1_loadLogs
    \/ \E foodName \in FoodInputs, servings \in ServingInputs :
           logs1_addFoodToLog(foodName, servings)
    \/ \E index \in 0..MaxIndex : logs1_removeFoodFromLog(index)
    \/ logs1_undoLastCommand
    \/ \E date \in Dates : logs1_setCurrentDate(date)
    \/ \E opened \in BOOLEAN : logs1_saveLogs(opened)

SpecSave == Init /\ [][NextSave]_vars

\* the content and the flag the claim is about, in the program that runs
Content == IF variant = "food" THEN foods ELSE dailyLogs

Flag == IF variant = "food" THEN modified ELSE logModified

SavedResults == { "Database saved", "Logs saved" }

\* C37: the modified flags are conservative. In logs1.cpp the flag is true
\* whenever the ledger differs from what the log file holds, which is the
\* content of the last load or successful save. In both programs every change
\* of the content from the menu raises the flag, only a successful save
\* lowers it, and a successful save lowers it and leaves the content alone.
C37_ModifiedConservative ==
    /\ []((variant = "logs1" /\ phase = "menu" /\ dailyLogs # logs1_Loaded) => logModified)
    /\ [][ /\ (phase = "menu" /\ phase' = "menu" /\ Content' # Content) => Flag'
           /\ (Flag /\ ~Flag') => lastOp'.result \in SavedResults
           /\ (lastOp'.result \in SavedResults /\ lastOp' # lastOp) =>
                  (~Flag' /\ Content' = Content) ]_vars

\* logs1.cpp saved a ledger it had changed, then undid a command: the ledger
\* is not the saved one and the flag is up again
C37_Witness ==
    /\ variant = "logs1" /\ phase = "menu"
    /\ logFile \notin Logs1LogFiles
    /\ lastOp.result = "Undoing"
    /\ dailyLogs # logs1_Loaded
    /\ logModified

\* food.cpp saved a catalog that holds a food added from the menu
C37_Witness_catalog ==
    /\ variant = "food" /\ phase = "menu"
    /\ lastOp.result = "Database saved"
    /\ "Pizza" \in DOMAIN foods
    /\ ~modified

=============================================================================
